---- MODULE Spec2Model ----
\* A model of lims-elisa-lab:
\*  - the SOP step sequencer (src/sop_runner/workflow.py): StepTemplate,
\*    StepRecord, SOPWorkflow, TemplateLibrary and WorkflowService, with the
\*    wall clock as environment;
\*  - the calibration-curve fits (src/analytics/curve_fitting.py): input
\*    validation, backend selection, the delegate call and the local
\*    gradient-descent loop of fit_4pl and fit_5pl;
\*  - the Westgard rules (src/qc/westgard.py): ControlResult.z_score and
\*    check_westgard;
\*  - the task runner (src/orchestrator/workflow.py): AuditLogger,
\*    WorkflowDAG and build_full_run, with the outcome of each task as
\*    environment;
\*  - the mock liquid handler (src/connectors/liquid_handler.py):
\*    MockLiquidHandler.load_well and transfer;
\*  - the LIMS adapter (src/lims/adapter.py, src/lims/config.py):
\*    registration, authentication and the audit trail of LIMSAdapter.
EXTENDS Integers, Sequences, FiniteSets, TLC

VARIABLES
    workflows,  \* WorkflowService._workflows: workflow id -> SOPWorkflow
    clock,      \* the wall clock read by datetime.utcnow(), in seconds
    last,       \* the last service call: its name, workflow id and outcome
    scipy_present,  \* does importlib find scipy.optimize in this process?
    fit_call,   \* the arguments of the fit call in progress
    fit_pc,     \* the position of that call: idle, curve_fit, descend, done
    fit_state,  \* the locals of the call: the initial guess, params, iteration
    fit_trace,  \* the backend invocations and tolerance tests made so far
    fit_ret,    \* the outcome of the call: a FitResult or an exception
    pool,       \* the population the quality controls are drawn from
    scores,     \* ControlResult.z_score of each control of the pool
    results,    \* the list of ControlResult handed to check_westgard
    breaches,   \* the report check_westgard returned for that list
    tasks,      \* WorkflowDAG.tasks: the names of the tasks, in order added
    entries,    \* AuditLogger.entries of the logger of the DAG
    run_pc,     \* per call of WorkflowDAG.run, its position: idle, loop, append, next, return, done
    run_state,  \* per call, the locals of run: the task index, results, the output
    run_trace,  \* per call, the task returns and raises of the call, in order
    run_ret,    \* the outcome of build_full_run and of each call of run
    deck_state, \* MockLiquidHandler.deck_state: well -> volume
    audit_log,  \* MockLiquidHandler.audit_log
    loaded,     \* the sum of the volumes loaded so far, exactly
    deck_last,  \* the last handler call, its outcome and the state before it
    users,      \* LIMSAdapter._users: user id -> role and password
    config,     \* the settings of the LIMSContext of the adapter
    audit_trail,    \* LIMSContext.audit_trail
    utcnow,     \* the latest reading of datetime.utcnow() by the adapter, in seconds
    calls,      \* per thread, its adapter call that has passed its checks and not yet returned
    sample_ids, \* the ids the create_sample calls have returned, in order
    lims_last   \* the last adapter call, its outcome and the value returned

SOPVars == <<workflows, clock, last>>
FitVars == <<scipy_present, fit_call, fit_pc, fit_state, fit_trace, fit_ret>>
QCVars == <<pool, scores, results, breaches>>
DAGVars == <<tasks, entries, run_pc, run_state, run_trace, run_ret>>
DeckVars == <<deck_state, audit_log, loaded, deck_last>>
LIMSVars == <<users, config, audit_trail, utcnow, calls, sample_ids, lims_last>>
vars == <<SOPVars, FitVars, QCVars, DAGVars, DeckVars, LIMSVars>>

-----------------------------------------------------------------------------
\* Optional[T]: None or a present value.
None == <<>>
Some(x) == <<x>>
Val(o) == o[1]

\* dict.get(key, default)
Get(d, key, default) == IF key \in DOMAIN d THEN d[key] ELSE default

\* The empty dict {}.
EmptyDict == <<>>

\* A subsystem that is not in use keeps its variables at these values.
FitUnused ==
    /\ scipy_present = FALSE
    /\ fit_call = <<>>
    /\ fit_pc = "idle"
    /\ fit_state = <<>>
    /\ fit_trace = <<>>
    /\ fit_ret = <<>>
QCUnused ==
    /\ pool = <<>>
    /\ scores = <<>>
    /\ results = <<>>
    /\ breaches = <<>>
SOPUnused ==
    /\ workflows = <<>>
    /\ clock = 0
    /\ last = <<>>
DAGUnused ==
    /\ tasks = <<>>
    /\ entries = <<>>
    /\ run_pc = <<>>
    /\ run_state = <<>>
    /\ run_trace = <<>>
    /\ run_ret = <<>>
DeckUnused ==
    /\ deck_state = <<>>
    /\ audit_log = <<>>
    /\ loaded = <<>>
    /\ deck_last = <<>>
LIMSUnused ==
    /\ users = <<>>
    /\ config = <<>>
    /\ audit_trail = <<>>
    /\ utcnow = 0
    /\ calls = <<>>
    /\ sample_ids = <<>>
    /\ lims_last = <<>>

-----------------------------------------------------------------------------
\* Bounds of the model.
MaxRecords == 2     \* step records kept per workflow
MaxTicks == 2       \* clock advances explored

\* int(minutes) * 60 in TemplateLibrary._parse_duration
SecondsPerMinute == 60

\* The clock is observed at whole minutes.
ClockStep == SecondsPerMinute

-----------------------------------------------------------------------------
\* Inputs of the service calls.
\* workflow ids the callers create, and every id they use in a call
\* ("ghost" is never created)
CreateIds == {"run-1"}
WorkflowIds == CreateIds \cup {"ghost"}
Operators == {"alice"}
Signatures == {"sig1"}

\* inputs of record_step_start
StartInputs ==
    { [operator |-> "alice"],
      [operator |-> "alice", reagent_lot |-> "lot1"] }

\* completion_inputs of record_step_signature (None is the default argument)
CompletionInputs ==
    { None,
      Some(EmptyDict),
      Some([incubation_time_minutes |-> "2"]) }

\* steps of create_workflow
StepNameLists == { <<>>, <<"prep">>, <<"prep", "measure">> }

\* template_name of create_workflow_from_template
TemplateNames == {"custom", "timed", "absent"}

\* The template directory: the files that exist, as <<stem, suffix>>, and the
\* parsed document of each. "custom" is the template of
\* test_step_cannot_complete_without_required_fields (a minimum duration);
\* "timed" sets a maximum duration only.
TemplateDir == { <<"custom", "yaml">>, <<"timed", "yml">> }

TemplateFile(path) ==
    IF path = <<"custom", "yaml">>
    THEN [name |-> "custom",
          steps |-> << [name |-> "incubation",
                        required_start_fields |-> <<"operator", "reagent_lot">>,
                        required_completion_fields |-> <<"incubation_time_minutes">>,
                        min_duration_minutes |-> 1] >>]
    ELSE [name |-> "timed",
          steps |-> << [name |-> "wash",
                        max_duration_minutes |-> 1] >>]

-----------------------------------------------------------------------------
\* StepTemplate(name=..., ...) with the dataclass defaults.
StepTemplate(name, rsf, rcf, minSec, maxSec, controls, reagents) ==
    [name |-> name,
     required_start_fields |-> rsf,
     required_completion_fields |-> rcf,
     min_duration_seconds |-> minSec,
     max_duration_seconds |-> maxSec,
     controls |-> controls,
     reagents |-> reagents]

NamedStep(name) == StepTemplate(name, <<>>, <<>>, None, None, <<>>, <<>>)

\* StepRecord(definition, operator, started_at, start_data): unsigned.
StepRecord(definition, operator, started_at, start_data) ==
    [definition |-> definition,
     operator |-> operator,
     started_at |-> started_at,
     start_data |-> start_data,
     completed_at |-> None,
     completion_data |-> EmptyDict,
     signature |-> None]

\* SOPWorkflow(templates=...): no records, cursor 0.
SOPWorkflow(templates) ==
    [templates |-> templates, records |-> <<>>, cursor |-> 0]

\* The outcome of a call: a normal return or a raised exception.
Return == [raised |-> FALSE, type |-> "", msg |-> "", fields |-> <<>>]
Raise(type, msg, fields) ==
    [raised |-> TRUE, type |-> type, msg |-> msg, fields |-> fields]

\* [field for field in required if field not in inputs]
MissingFields(required, inputs) ==
    SelectSeq(required, LAMBDA f : f \notin DOMAIN inputs)

-----------------------------------------------------------------------------
\* Variant of start_next_step that appends the record before it validates the
\* required start fields.
start_next_step_AppendFirst(wf, operator, inputs, now) ==
    IF wf.cursor >= Len(wf.templates)
    THEN [wf |-> wf, out |-> Raise("IndexError", "All steps completed", <<>>)]
    ELSE LET definition == wf.templates[wf.cursor + 1]
             missing_fields == MissingFields(definition.required_start_fields, inputs)
             appended == [wf EXCEPT !.records =
                             Append(@, StepRecord(definition, operator, now, inputs))]
         IN  IF missing_fields /= <<>>
             THEN [wf |-> appended,
                   out |-> Raise("ValueError", "Missing required start fields",
                                 missing_fields)]
             ELSE [wf |-> appended, out |-> Return]

\* Variant of start_next_step that restarts an active step in place: the
\* record at the cursor is replaced instead of a new one being appended.
start_next_step_Restart(wf, operator, inputs, now) ==
    IF wf.cursor >= Len(wf.templates)
    THEN [wf |-> wf, out |-> Raise("IndexError", "All steps completed", <<>>)]
    ELSE LET definition == wf.templates[wf.cursor + 1]
             missing_fields == MissingFields(definition.required_start_fields, inputs)
             record == StepRecord(definition, operator, now, inputs)
         IN  IF missing_fields /= <<>>
             THEN [wf |-> wf,
                   out |-> Raise("ValueError", "Missing required start fields",
                                 missing_fields)]
             ELSE [wf |-> [wf EXCEPT !.records =
                              IF wf.cursor < Len(@)
                              THEN [@ EXCEPT ![wf.cursor + 1] = record]
                              ELSE Append(@, record)],
                   out |-> Return]

\* SOPWorkflow.start_next_step: the workflow after the call and the outcome.
start_next_step(wf, operator, inputs, now) ==
    IF wf.cursor >= Len(wf.templates)
    THEN [wf |-> wf, out |-> Raise("IndexError", "All steps completed", <<>>)]
    ELSE LET definition == wf.templates[wf.cursor + 1]
             missing_fields == MissingFields(definition.required_start_fields, inputs)
         IN  IF missing_fields /= <<>>
             THEN [wf |-> wf,
                   out |-> Raise("ValueError", "Missing required start fields",
                                 missing_fields)]
             ELSE [wf |-> [wf EXCEPT !.records =
                              Append(@, StepRecord(definition, operator, now, inputs))],
                   out |-> Return]

\* completion_inputs or {}
OrEmpty(completion_inputs) ==
    IF completion_inputs = None \/ Val(completion_inputs) = EmptyDict
    THEN EmptyDict
    ELSE Val(completion_inputs)

\* Variant of sign_off_step that signs the record but forgets to advance the
\* cursor.
sign_off_step_NoAdvance(wf, signature, completion_inputs, now) ==
    LET inputs == OrEmpty(completion_inputs) IN
    IF wf.cursor >= Len(wf.records)
    THEN [wf |-> wf, out |-> Raise("ValueError", "No step started", <<>>)]
    ELSE
    LET record == wf.records[wf.cursor + 1]
        definition == record.definition
        missing_fields == MissingFields(definition.required_completion_fields, inputs)
        duration == now - record.started_at
        stamped == [wf EXCEPT !.records[wf.cursor + 1].completed_at = Some(now)]
    IN  IF record.completed_at /= None
        THEN [wf |-> wf, out |-> Raise("ValueError", "Step already signed", <<>>)]
        ELSE IF missing_fields /= <<>>
        THEN [wf |-> wf,
              out |-> Raise("ValueError", "Missing required completion fields",
                            missing_fields)]
        ELSE IF definition.min_duration_seconds /= None
                /\ duration < Val(definition.min_duration_seconds)
        THEN [wf |-> wf, out |-> Raise("ValueError", "Step completed too quickly", <<>>)]
        ELSE IF definition.max_duration_seconds /= None
                /\ duration > Val(definition.max_duration_seconds)
        THEN [wf |-> wf, out |-> Raise("ValueError", "Step exceeded maximum duration", <<>>)]
        ELSE [wf |-> [wf EXCEPT !.records[wf.cursor + 1] =
                         [record EXCEPT !.completed_at = Some(now),
                                        !.completion_data = inputs,
                                        !.signature = Some(signature)]],
              out |-> Return]

\* Variant of sign_off_step that stamps completed_at before the duration gates,
\* so a sign-off rejected by a gate leaves the stamp behind.
sign_off_step_StampFirst(wf, signature, completion_inputs, now) ==
    LET inputs == OrEmpty(completion_inputs) IN
    IF wf.cursor >= Len(wf.records)
    THEN [wf |-> wf, out |-> Raise("ValueError", "No step started", <<>>)]
    ELSE
    LET record == wf.records[wf.cursor + 1]
        definition == record.definition
        missing_fields == MissingFields(definition.required_completion_fields, inputs)
        duration == now - record.started_at
        stamped == [wf EXCEPT !.records[wf.cursor + 1].completed_at = Some(now)]
    IN  IF record.completed_at /= None
        THEN [wf |-> wf, out |-> Raise("ValueError", "Step already signed", <<>>)]
        ELSE IF missing_fields /= <<>>
        THEN [wf |-> wf,
              out |-> Raise("ValueError", "Missing required completion fields",
                            missing_fields)]
        ELSE IF definition.min_duration_seconds /= None
                /\ duration < Val(definition.min_duration_seconds)
        THEN [wf |-> stamped, out |-> Raise("ValueError", "Step completed too quickly", <<>>)]
        ELSE IF definition.max_duration_seconds /= None
                /\ duration > Val(definition.max_duration_seconds)
        THEN [wf |-> stamped, out |-> Raise("ValueError", "Step exceeded maximum duration", <<>>)]
        ELSE [wf |-> [wf EXCEPT !.records[wf.cursor + 1] =
                         [record EXCEPT !.completed_at = Some(now),
                                        !.completion_data = inputs,
                                        !.signature = Some(signature)],
                                !.cursor = @ + 1],
              out |-> Return]

\* Variant of sign_off_step whose minimum gate is strict: an elapsed time equal
\* to the minimum is rejected.
sign_off_step_StrictMin(wf, signature, completion_inputs, now) ==
    LET inputs == OrEmpty(completion_inputs) IN
    IF wf.cursor >= Len(wf.records)
    THEN [wf |-> wf, out |-> Raise("ValueError", "No step started", <<>>)]
    ELSE
    LET record == wf.records[wf.cursor + 1]
        definition == record.definition
        missing_fields == MissingFields(definition.required_completion_fields, inputs)
        duration == now - record.started_at
        stamped == [wf EXCEPT !.records[wf.cursor + 1].completed_at = Some(now)]
    IN  IF record.completed_at /= None
        THEN [wf |-> wf, out |-> Raise("ValueError", "Step already signed", <<>>)]
        ELSE IF missing_fields /= <<>>
        THEN [wf |-> wf,
              out |-> Raise("ValueError", "Missing required completion fields",
                            missing_fields)]
        ELSE IF definition.min_duration_seconds /= None
                /\ duration <= Val(definition.min_duration_seconds)
        THEN [wf |-> wf, out |-> Raise("ValueError", "Step completed too quickly", <<>>)]
        ELSE IF definition.max_duration_seconds /= None
                /\ duration > Val(definition.max_duration_seconds)
        THEN [wf |-> wf, out |-> Raise("ValueError", "Step exceeded maximum duration", <<>>)]
        ELSE [wf |-> [wf EXCEPT !.records[wf.cursor + 1] =
                         [record EXCEPT !.completed_at = Some(now),
                                        !.completion_data = inputs,
                                        !.signature = Some(signature)],
                                !.cursor = @ + 1],
              out |-> Return]

\* SOPWorkflow.sign_off_step: the workflow after the call and the outcome.
sign_off_step(wf, signature, completion_inputs, now) ==
    LET inputs == OrEmpty(completion_inputs) IN
    IF wf.cursor >= Len(wf.records)
    THEN [wf |-> wf, out |-> Raise("ValueError", "No step started", <<>>)]
    ELSE
    LET record == wf.records[wf.cursor + 1]
        definition == record.definition
        missing_fields == MissingFields(definition.required_completion_fields, inputs)
        duration == now - record.started_at
    IN  IF record.completed_at /= None
        THEN [wf |-> wf, out |-> Raise("ValueError", "Step already signed", <<>>)]
        ELSE IF missing_fields /= <<>>
        THEN [wf |-> wf,
              out |-> Raise("ValueError", "Missing required completion fields",
                            missing_fields)]
        ELSE IF definition.min_duration_seconds /= None
                /\ duration < Val(definition.min_duration_seconds)
        THEN [wf |-> wf, out |-> Raise("ValueError", "Step completed too quickly", <<>>)]
        ELSE IF definition.max_duration_seconds /= None
                /\ duration > Val(definition.max_duration_seconds)
        THEN [wf |-> wf, out |-> Raise("ValueError", "Step exceeded maximum duration", <<>>)]
        ELSE [wf |-> [wf EXCEPT !.records[wf.cursor + 1] =
                         [record EXCEPT !.completed_at = Some(now),
                                        !.completion_data = inputs,
                                        !.signature = Some(signature)],
                                !.cursor = @ + 1],
              out |-> Return]

\* datetime.isoformat(): the textual form of a timestamp.
isoformat(t) == <<"iso", t>>

\* SOPWorkflow.summary
summary(wf) ==
    [i \in 1..Len(wf.records) |->
        LET record == wf.records[i] IN
        [name |-> record.definition.name,
         operator |-> record.operator,
         started_at |-> isoformat(record.started_at),
         start_data |-> record.start_data,
         completed |-> record.completed_at /= None,
         completion_data |-> record.completion_data,
         signature |-> IF record.signature = None THEN "" ELSE Val(record.signature)]]

\* SOPWorkflow.step_requirements
step_requirements(wf) ==
    [i \in 1..Len(wf.templates) |->
        LET template == wf.templates[i] IN
        [name |-> template.name,
         required_start_fields |-> template.required_start_fields,
         required_completion_fields |-> template.required_completion_fields,
         min_duration_seconds |-> template.min_duration_seconds,
         max_duration_seconds |-> template.max_duration_seconds,
         controls |-> template.controls,
         reagents |-> template.reagents]]

-----------------------------------------------------------------------------
\* TemplateLibrary._resolve_template_path: the first of .yaml, .yml, .json
\* that exists, or None (FileNotFoundError).
_resolve_template_path(template_name) ==
    IF <<template_name, "yaml">> \in TemplateDir THEN Some(<<template_name, "yaml">>)
    ELSE IF <<template_name, "yml">> \in TemplateDir THEN Some(<<template_name, "yml">>)
    ELSE IF <<template_name, "json">> \in TemplateDir THEN Some(<<template_name, "json">>)
    ELSE None

\* TemplateLibrary._parse_duration: minutes to seconds, None when absent.
_parse_duration(step, key) ==
    IF key \notin DOMAIN step THEN None ELSE Some(step[key] * SecondsPerMinute)

\* TemplateLibrary.get_template, for a path that resolved.
get_template(template_name) ==
    LET raw == TemplateFile(Val(_resolve_template_path(template_name)))
        steps == Get(raw, "steps", <<>>)
    IN  [i \in 1..Len(steps) |->
            StepTemplate(steps[i].name,
                         Get(steps[i], "required_start_fields", <<>>),
                         Get(steps[i], "required_completion_fields", <<>>),
                         _parse_duration(steps[i], "min_duration_minutes"),
                         _parse_duration(steps[i], "max_duration_minutes"),
                         Get(steps[i], "controls", <<>>),
                         Get(steps[i], "reagents", <<>>))]

\* dict assignment self._workflows[workflow_id] = workflow
SetItem(d, key, value) ==
    [k \in DOMAIN d \cup {key} |-> IF k = key THEN value ELSE d[k]]

\* The record of a service call: its name, workflow id, outcome (return or
\* exception) and returned value.
Call(op, wid, out, ret) ==
    [op |-> op, wid |-> wid, out |-> out, ret |-> ret]

AlreadyExists == Raise("KeyError", "Workflow already exists", <<>>)
WorkflowNotFound == Raise("KeyError", "Workflow not found", <<>>)
TemplateNotFound == Raise("FileNotFoundError", "Template not found", <<>>)

-----------------------------------------------------------------------------
\* WorkflowService.__init__: no workflows; the clock at its origin.
SOPInit ==
    /\ workflows = <<>>
    /\ clock = 0
    /\ last = Call("init", "", Return, <<>>)
    /\ FitUnused /\ QCUnused /\ DAGUnused /\ DeckUnused /\ LIMSUnused

\* Variant of create_workflow without the existence check: an existing
\* workflow is replaced.
create_workflow_Overwrite(workflow_id, steps) ==
    LET templates == [i \in 1..Len(steps) |-> NamedStep(steps[i])] IN
    /\ workflows' = SetItem(workflows, workflow_id, SOPWorkflow(templates))
    /\ last' = Call("create_workflow", workflow_id, Return, <<>>)
    /\ UNCHANGED clock

\* WorkflowService.create_workflow
create_workflow(workflow_id, steps) ==
    IF workflow_id \in DOMAIN workflows
    THEN /\ last' = Call("create_workflow", workflow_id, AlreadyExists, <<>>)
         /\ UNCHANGED <<workflows, clock>>
    ELSE LET templates == [i \in 1..Len(steps) |-> NamedStep(steps[i])] IN
         /\ workflows' = SetItem(workflows, workflow_id, SOPWorkflow(templates))
         /\ last' = Call("create_workflow", workflow_id, Return, <<>>)
         /\ UNCHANGED clock

\* WorkflowService.create_workflow_from_template
create_workflow_from_template(workflow_id, template_name) ==
    IF workflow_id \in DOMAIN workflows
    THEN /\ last' = Call("create_workflow_from_template", workflow_id, AlreadyExists, <<>>)
         /\ UNCHANGED <<workflows, clock>>
    ELSE IF _resolve_template_path(template_name) = None
    THEN /\ last' = Call("create_workflow_from_template", workflow_id, TemplateNotFound, <<>>)
         /\ UNCHANGED <<workflows, clock>>
    ELSE /\ workflows' = SetItem(workflows, workflow_id,
                                 SOPWorkflow(get_template(template_name)))
         /\ last' = Call("create_workflow_from_template", workflow_id, Return, <<>>)
         /\ UNCHANGED clock

\* WorkflowService._get_workflow: is the id registered? (KeyError otherwise)
_get_workflow(workflow_id) == workflow_id \in DOMAIN workflows

\* WorkflowService.record_step_start
record_step_start(workflow_id, operator, inputs) ==
    IF ~_get_workflow(workflow_id)
    THEN /\ last' = Call("record_step_start", workflow_id, WorkflowNotFound, <<>>)
         /\ UNCHANGED <<workflows, clock>>
    ELSE LET r == start_next_step(workflows[workflow_id], operator, inputs, clock) IN
         /\ Len(r.wf.records) <= MaxRecords
         /\ workflows' = [workflows EXCEPT ![workflow_id] = r.wf]
         /\ last' = Call("record_step_start", workflow_id, r.out, <<>>)
         /\ UNCHANGED clock

\* WorkflowService.record_step_signature
record_step_signature(workflow_id, signature, completion_inputs) ==
    IF ~_get_workflow(workflow_id)
    THEN /\ last' = Call("record_step_signature", workflow_id, WorkflowNotFound, <<>>)
         /\ UNCHANGED <<workflows, clock>>
    ELSE LET r == sign_off_step(workflows[workflow_id], signature,
                                completion_inputs, clock) IN
         /\ workflows' = [workflows EXCEPT ![workflow_id] = r.wf]
         /\ last' = Call("record_step_signature", workflow_id, r.out, <<>>)
         /\ UNCHANGED clock

\* WorkflowService.get_workflow_summary
get_workflow_summary(workflow_id) ==
    /\ last' = IF ~_get_workflow(workflow_id)
               THEN Call("get_workflow_summary", workflow_id, WorkflowNotFound, <<>>)
               ELSE Call("get_workflow_summary", workflow_id, Return,
                         summary(workflows[workflow_id]))
    /\ UNCHANGED <<workflows, clock>>

\* WorkflowService.get_workflow_requirements
get_workflow_requirements(workflow_id) ==
    /\ last' = IF ~_get_workflow(workflow_id)
               THEN Call("get_workflow_requirements", workflow_id, WorkflowNotFound, <<>>)
               ELSE Call("get_workflow_requirements", workflow_id, Return,
                         step_requirements(workflows[workflow_id]))
    /\ UNCHANGED <<workflows, clock>>

\* The wall clock advances between calls.
Tick ==
    /\ clock + ClockStep <= MaxTicks * ClockStep
    /\ clock' = clock + ClockStep
    /\ UNCHANGED <<workflows, last>>

\* The calls of the service; the fits and the quality control stand still.
SOPOnly == UNCHANGED <<FitVars, QCVars, DAGVars, DeckVars, LIMSVars>>
CreateWorkflow == \E id \in CreateIds, steps \in StepNameLists :
    create_workflow(id, steps) /\ SOPOnly
CreateWorkflowFromTemplate == \E id \in CreateIds, name \in TemplateNames :
    create_workflow_from_template(id, name) /\ SOPOnly
RecordStepStart == \E id \in WorkflowIds, operator \in Operators, inputs \in StartInputs :
    record_step_start(id, operator, inputs) /\ SOPOnly
RecordStepSignature ==
    \E id \in WorkflowIds, signature \in Signatures, inputs \in CompletionInputs :
        record_step_signature(id, signature, inputs) /\ SOPOnly
GetWorkflowSummary == \E id \in WorkflowIds : get_workflow_summary(id) /\ SOPOnly
GetWorkflowRequirements == \E id \in WorkflowIds : get_workflow_requirements(id) /\ SOPOnly
AdvanceClock == Tick /\ SOPOnly

SOPNext ==
    \/ CreateWorkflow
    \/ CreateWorkflowFromTemplate
    \/ RecordStepStart
    \/ RecordStepSignature
    \/ GetWorkflowSummary
    \/ GetWorkflowRequirements
    \/ AdvanceClock

\* The sequencer on its own: the fits and the quality control are not in use.
SpecSOP ==
    /\ SOPInit
    /\ [][SOPNext]_vars

-----------------------------------------------------------------------------
\* Vocabulary of the properties.

\* A record is signed once its completion timestamp is set.
Signed(record) == record.completed_at /= None

\* The indices of the unsigned records of a workflow.
Unsigned(wf) == { i \in 1..Len(wf.records) : ~Signed(wf.records[i]) }

\* This step is a call of service operation op (the clock is only read by
\* calls; it moves between them).
IsCall(op) == clock' = clock /\ last'.op = op

\* This step is a successful sign-off on workflow id.
SignedOff(id) ==
    /\ IsCall("record_step_signature")
    /\ last'.wid = id
    /\ ~last'.out.raised

\* duration d passes both gates of a template.
InBounds(definition, d) ==
    /\ definition.min_duration_seconds = None
       \/ d >= Val(definition.min_duration_seconds)
    /\ definition.max_duration_seconds = None
       \/ d <= Val(definition.max_duration_seconds)

-----------------------------------------------------------------------------
\* C1 (as stated): in every reachable state of every workflow the number of
\* step records equals the cursor.
C1_RecordsEqualCursor ==
    \A id \in DOMAIN workflows :
        Len(workflows[id].records) = workflows[id].cursor

\* C1 (amended): the cursor counts the signed records: the records below the
\* cursor are exactly the signed ones, so the number of signed records equals
\* the cursor and the number of records is at least the cursor.
C1_SignedRecordsEqualCursor ==
    \A id \in DOMAIN workflows :
        LET wf == workflows[id] IN
        /\ wf.cursor <= Len(wf.records)
        /\ \A i \in 1..Len(wf.records) : Signed(wf.records[i]) <=> i <= wf.cursor
        /\ Cardinality({ i \in 1..Len(wf.records) : Signed(wf.records[i]) }) = wf.cursor

\* A workflow with a signed step and a started, unsigned one after it.
C1_Witness ==
    \E id \in DOMAIN workflows :
        /\ workflows[id].cursor >= 1
        /\ Len(workflows[id].records) > workflows[id].cursor

\* C2: the cursor stays between 0 and the number of templates; no call
\* decreases it and only a successful sign-off changes it, by exactly one.
C2_CursorBounded ==
    [][ \A id \in DOMAIN workflows' :
            /\ workflows'[id].cursor \in 0..Len(workflows'[id].templates)
            /\ id \in DOMAIN workflows =>
                  \/ workflows'[id].cursor = workflows[id].cursor
                  \/ /\ workflows'[id].cursor = workflows[id].cursor + 1
                     /\ SignedOff(id) ]_SOPVars

\* C3: the i-th record was created from the i-th template (the record names
\* are a prefix of the template names) and a step is started only after every
\* earlier one was signed.
C3_RecordsFollowTemplates ==
    \A id \in DOMAIN workflows :
        LET wf == workflows[id] IN
        /\ Len(wf.records) <= Len(wf.templates)
        /\ \A i \in 1..Len(wf.records) :
              /\ i <= Len(wf.templates) => wf.records[i].definition = wf.templates[i]
              /\ i < Len(wf.records) => Signed(wf.records[i])

\* C4: at most one step record of a workflow is unsigned.
C4_AtMostOneUnsigned ==
    \A id \in DOMAIN workflows : Cardinality(Unsigned(workflows[id])) <= 1

\* C5: a sign-off on a workflow with no started step, and a sign-off that
\* directly follows a successful sign-off of the same workflow, both fail and
\* leave the cursor unchanged.
C5_SignOffOutOfTurnFails ==
    [][ \A id \in DOMAIN workflows :
            ( /\ IsCall("record_step_signature")
              /\ last'.wid = id
              /\ \/ workflows[id].records = <<>>
                 \/ /\ last.op = "record_step_signature"
                    /\ last.wid = id
                    /\ ~last.out.raised )
            => /\ last'.out.raised
               /\ workflows'[id].cursor = workflows[id].cursor ]_SOPVars

\* The clock readings from now on.
LaterTimes == { clock' + k * ClockStep : k \in 0..MaxTicks }

\* C6: a sign-off that fails, for whatever reason, leaves every workflow as it
\* was (cursor, records and each record's completion fields), and a later
\* sign-off of the active step that supplies the required completion fields
\* within the duration bounds still succeeds.
C6_FailedSignOffChangesNothing ==
    [][ (IsCall("record_step_signature") /\ last'.out.raised) =>
          /\ workflows' = workflows
          /\ \A id \in DOMAIN workflows' :
                LET wf == workflows'[id] IN
                (last'.wid = id /\ wf.cursor < Len(wf.records)) =>
                \A ci \in CompletionInputs, t \in LaterTimes, sig \in Signatures :
                    LET record == wf.records[wf.cursor + 1]
                        r == sign_off_step(wf, sig, ci, t)
                    IN  ( /\ MissingFields(record.definition.required_completion_fields,
                                           OrEmpty(ci)) = <<>>
                          /\ InBounds(record.definition, t - record.started_at) )
                        => /\ ~r.out.raised
                           /\ r.wf.cursor = wf.cursor + 1
                           /\ Signed(r.wf.records[wf.cursor + 1]) ]_SOPVars

\* A sign-off was just rejected by the minimum-duration gate and its step is
\* still active and unsigned.
C6_Witness ==
    /\ last.op = "record_step_signature"
    /\ last.out.msg = "Step completed too quickly"
    /\ last.wid \in DOMAIN workflows
    /\ Unsigned(workflows[last.wid]) /= {}

\* C7: start_next_step fails when the cursor has reached the template count
\* and when a required start field of the next template is absent from the
\* inputs; a failing start creates no record and leaves the cursor unchanged.
C7_StartFailures ==
    [][ IsCall("record_step_start") =>
        \A id \in DOMAIN workflows, operator \in Operators, inputs \in StartInputs :
            record_step_start(id, operator, inputs) =>
            LET wf == workflows[id] IN
            /\ wf.cursor >= Len(wf.templates) =>
                  /\ last'.out.raised
                  /\ last'.out.type = "IndexError"
            /\ ( /\ wf.cursor < Len(wf.templates)
                 /\ \E f \in DOMAIN wf.templates[wf.cursor + 1].required_start_fields :
                       wf.templates[wf.cursor + 1].required_start_fields[f]
                          \notin DOMAIN inputs )
               => /\ last'.out.raised
                  /\ last'.out.type = "ValueError"
                  /\ last'.out.fields /= <<>>
            /\ last'.out.raised => workflows'[id] = wf ]_SOPVars

\* A start was just refused because every step is completed, on a workflow
\* that has steps.
C7_Witness ==
    /\ last.op = "record_step_start"
    /\ last.out.msg = "All steps completed"
    /\ last.wid \in DOMAIN workflows
    /\ workflows[last.wid].templates /= <<>>
    /\ workflows[last.wid].cursor = Len(workflows[last.wid].templates)

\* C8: a record becomes signed only when the elapsed time since its start is
\* within the template's duration bounds; a sign-off of an active step with
\* its required fields present and the elapsed time within the bounds (an
\* unset bound admits every duration, a duration equal to a bound is within
\* it) is accepted.
C8_DurationGates ==
    [][ IsCall("record_step_signature") =>
        \A id \in DOMAIN workflows, sig \in Signatures, ci \in CompletionInputs :
            record_step_signature(id, sig, ci) =>
            LET wf == workflows[id]
                active == wf.cursor < Len(wf.records)
                record == wf.records[wf.cursor + 1]
                elapsed == clock - record.started_at
            IN  /\ ~last'.out.raised =>
                      /\ active
                      /\ InBounds(record.definition, elapsed)
                      /\ workflows'[id].records[wf.cursor + 1].completed_at = Some(clock)
                /\ ( /\ active
                     /\ MissingFields(record.definition.required_completion_fields,
                                      OrEmpty(ci)) = <<>>
                     /\ InBounds(record.definition, elapsed) )
                   => ~last'.out.raised ]_SOPVars

\* A record of a template with a minimum duration, signed when the elapsed
\* time was exactly that minimum.
C8_Witness ==
    \E id \in DOMAIN workflows :
        \E i \in 1..Len(workflows[id].records) :
            LET record == workflows[id].records[i] IN
            /\ Signed(record)
            /\ record.definition.min_duration_seconds /= None
            /\ Val(record.completed_at) - record.started_at
                  = Val(record.definition.min_duration_seconds)

\* C9: a record is created unsigned by a start; the only change ever made to
\* it is the one sign-off that fills completed_at, completion_data and
\* signature; a signed record never changes again; records are never removed
\* and the list grows only at its end.
C9_RecordLifecycle ==
    [][ \A id \in DOMAIN workflows :
            /\ id \in DOMAIN workflows'
            /\ LET old == workflows[id].records
                   new == workflows'[id].records
               IN  /\ Len(new) >= Len(old)
                   /\ \A i \in 1..Len(old) :
                         \/ new[i] = old[i]
                         \/ /\ ~Signed(old[i])
                            /\ Signed(new[i])
                            /\ SignedOff(id)
                            /\ new[i].signature /= None
                            /\ new[i] = [old[i] EXCEPT
                                            !.completed_at = new[i].completed_at,
                                            !.completion_data = new[i].completion_data,
                                            !.signature = new[i].signature]
                   /\ \A i \in (Len(old) + 1)..Len(new) :
                         /\ IsCall("record_step_start")
                         /\ Len(new) = Len(old) + 1
                         /\ ~Signed(new[i])
                         /\ new[i].signature = None
                         /\ new[i].completion_data = EmptyDict ]_SOPVars

\* A step was just started in a workflow that already holds a signed record.
C9_Witness ==
    /\ last.op = "record_step_start"
    /\ ~last.out.raised
    /\ \E id \in DOMAIN workflows :
          /\ Len(workflows[id].records) >= 2
          /\ Signed(workflows[id].records[1])

-----------------------------------------------------------------------------
\* The parts of C10 on one step.

\* A registered workflow id stays registered.
RegistryGrows == DOMAIN workflows \subseteq DOMAIN workflows'

\* Creating under a registered id fails and changes no workflow.
DuplicateCreateFails ==
    (  /\ IsCall("create_workflow") \/ IsCall("create_workflow_from_template")
       /\ last'.wid \in DOMAIN workflows )
    => /\ last'.out = AlreadyExists
       /\ workflows' = workflows

\* A create registers at most the id it names, with no records and cursor 0.
CreateRegistersOnlyItsId ==
    \A id \in DOMAIN workflows' \ DOMAIN workflows :
        /\ IsCall("create_workflow") \/ IsCall("create_workflow_from_template")
        /\ ~last'.out.raised
        /\ last'.wid = id
        /\ workflows'[id].records = <<>>
        /\ workflows'[id].cursor = 0
        /\ \A other \in DOMAIN workflows : workflows'[other] = workflows[other]

\* Step, summary and requirements calls on an unregistered id fail and change
\* no workflow.
UnknownIdFails ==
    (  /\ \/ IsCall("record_step_start")
          \/ IsCall("record_step_signature")
          \/ IsCall("get_workflow_summary")
          \/ IsCall("get_workflow_requirements")
       /\ last'.wid \notin DOMAIN workflows )
    => /\ last'.out = WorkflowNotFound
       /\ workflows' = workflows

\* This step creates from a template name that no file of the directory has.
CreatesFromUnknownTemplate ==
    \E id \in CreateIds, name \in TemplateNames :
        /\ _resolve_template_path(name) = None
        /\ create_workflow_from_template(id, name)

\* C10 (as stated): the registry only grows, a duplicate create fails and
\* changes nothing, operations on an unknown id fail and change nothing, and
\* creating from an unknown template name fails with the not-found error.
C10_RegistryAsStated ==
    [][ /\ RegistryGrows
        /\ DuplicateCreateFails
        /\ CreateRegistersOnlyItsId
        /\ UnknownIdFails
        /\ CreatesFromUnknownTemplate =>
              /\ last'.out = TemplateNotFound
              /\ workflows' = workflows ]_SOPVars

\* C10 (amended): as stated, except that creating from an unknown template
\* name fails with the not-found error when the id is not yet registered;
\* under a registered id it fails with the already-exists error. Either way
\* no workflow is registered or changed.
C10_RegistryOnlyGrows ==
    [][ /\ RegistryGrows
        /\ DuplicateCreateFails
        /\ CreateRegistersOnlyItsId
        /\ UnknownIdFails
        /\ CreatesFromUnknownTemplate =>
              /\ last'.out.raised
              /\ last'.out = IF last'.wid \in DOMAIN workflows
                             THEN AlreadyExists
                             ELSE TemplateNotFound
              /\ workflows' = workflows ]_SOPVars

\* A create was just refused for its id being taken, the registered workflow
\* already holding a record.
C10_Witness ==
    /\ last.op \in {"create_workflow", "create_workflow_from_template"}
    /\ last.out = AlreadyExists
    /\ last.wid \in DOMAIN workflows
    /\ workflows[last.wid].records /= <<>>

-----------------------------------------------------------------------------
\* Calibration-curve fitting (src/analytics/curve_fitting.py).
\*
\* Floating-point values the code computes by optimisation are not
\* computed here.  A parameter vector is recorded by its provenance: the
\* initial vector it started from, what produced it, and how many updates
\* of the local optimizer were applied to it.  The outcome of every
\* tolerance test of the local optimizer, of every loss evaluation and of the
\* delegate call is chosen by the environment.

\* Bounds of the fit inputs.
MaxPoints == 3       \* calibration points passed in one call
MaxIterations == 2   \* the largest max_iterations passed

\* Concentrations are counted in units of 5e-7: the floor 1e-6 under c is
\* 2 units, and a concentration of 1 unit lies below it.
FloorC == 2

XValues == {-2, 0, 1, 4}

\* Responses are counted in units of 1e153, in which the largest float,
\* 1.79769e308, is 179.769 square units: the square of a difference of 14
\* units or more is out of the float range.
FloatMax == 179769   \* thousandths of a square unit
YValues == {10, 12, 40}
Backends == {"auto", "scipy", "gradient", "lm"}

\* str(exc) of a failure of optimize.curve_fit
DelegateFailures == {"Optimal parameters not found"}

\* The lists of at most n elements of S.
Lists(S, n) == UNION { [1..k -> S] : k \in 0..n }

\* sum(x_list)
RECURSIVE sum(_)
sum(xs) == IF xs = <<>> THEN 0 ELSE Head(xs) + sum(Tail(xs))

\* min(y_list) and max(y_list)
min(ys) == CHOOSE y \in { ys[i] : i \in 1..Len(ys) } :
               \A i \in 1..Len(ys) : y <= ys[i]
max(ys) == CHOOSE y \in { ys[i] : i \in 1..Len(ys) } :
               \A i \in 1..Len(ys) : y >= ys[i]

\* A quotient n/d (d > 0) kept exact, and the order and equality of quotients.
Quotient(n, d) == <<n, d>>
Less(p, q) == p[1] * q[2] < q[1] * p[2]
Same(p, q) == p[1] * q[2] = q[1] * p[2]

\* c0 = sum(x_list) / len(x_list)
mean(xs) == Quotient(sum(xs), Len(xs))

\* max(c0, 1e-6)
floored(c0) == IF Less(c0, Quotient(FloorC, 1)) THEN Quotient(FloorC, 1) ELSE c0

\* Variant of _validate_inputs that tests positivity first.
_validate_inputs_PositivityFirst(xs, ys) ==
    IF \E i \in 1..Len(xs) : xs[i] <= 0
    THEN Raise("ValueError", "Concentrations must be positive for logistic fitting", <<>>)
    ELSE IF xs = <<>> \/ ys = <<>>
    THEN Raise("ValueError", "xs and ys must be non-empty", <<>>)
    ELSE IF Len(xs) /= Len(ys)
    THEN Raise("ValueError", "xs and ys must have the same length", <<>>)
    ELSE Return

\* _validate_inputs
_validate_inputs(xs, ys) ==
    IF xs = <<>> \/ ys = <<>>
    THEN Raise("ValueError", "xs and ys must be non-empty", <<>>)
    ELSE IF Len(xs) /= Len(ys)
    THEN Raise("ValueError", "xs and ys must have the same length", <<>>)
    ELSE IF \E i \in 1..Len(xs) : xs[i] <= 0
    THEN Raise("ValueError", "Concentrations must be positive for logistic fitting", <<>>)
    ELSE Return

\* _maybe_import_scipy_optimize: the module, or None when it is not installed
_maybe_import_scipy_optimize ==
    IF scipy_present THEN Some("scipy.optimize") ELSE None

\* The starting values a0, b0, c0, d0 (and g0) of a fit.
starting_values(xs, ys) ==
    [a0 |-> Quotient(min(ys), 1),
     b0 |-> Quotient(1, 1),
     c0 |-> mean(xs),
     d0 |-> Quotient(max(ys), 1),
     g0 |-> Quotient(1, 1)]

\* The initial guess handed to either backend:
\* [a0, b0, max(c0, 1e-6), d0] and, for 5PL, g0.
initial_guess(model, s) ==
    IF model = "4PL"
    THEN <<s.a0, s.b0, floored(s.c0), s.d0>>
    ELSE <<s.a0, s.b0, floored(s.c0), s.d0, s.g0>>

\* A parameter vector: the vector it started from, what produced it
\* ("given": nothing, it is that vector) and the updates applied.
Params(start, by, updates) == [start |-> start, by |-> by, updates |-> updates]

\* Is this parameter vector exactly the vector v?
IsVector(params, v) ==
    /\ params.by = "given" \/ (params.by = "descent" /\ params.updates = 0)
    /\ Len(params.start) = Len(v)
    /\ \A i \in 1..Len(v) : Same(params.start[i], v[i])

\* four_parameter_logistic(x, a, b, c, d) and five_parameter_logistic(x, a,
\* b, c, d, g): the value of the curve of that model at x, not computed.
curve(model, x, params) == [model |-> model, x |-> x, params |-> params]

\* Variant of predictions with one point per distinct x, in ascending order.
RECURSIVE predictions_Distinct(_, _, _)
predictions_Distinct(model, x_list, params) ==
    LET xset == { x_list[i] : i \in 1..Len(x_list) } IN
    IF xset = {} THEN <<>>
    ELSE LET x == CHOOSE v \in xset : \A w \in xset : v <= w
             rest == SelectSeq(x_list, LAMBDA w : w /= x)
         IN  <<<<x, curve(model, x, params)>>>> \o predictions_Distinct(model, rest, params)

\* predictions = [(x, curve(x, *params)) for x in x_list]
predictions(model, x_list, params) ==
    [i \in 1..Len(x_list) |-> <<x_list[i], curve(model, x_list[i], params)>>]

\* The exceptions of float arithmetic: `**` out of the float range, and a
\* division by zero.
OverflowError == Raise("OverflowError", "Numerical result out of range", <<>>)
ZeroDivisionError == Raise("ZeroDivisionError", "float division by zero", <<>>)

\* Is (o - mean_obs) ** 2 out of the float range for some observation o?
\* With n observations o - mean_obs is (n * o - sum(observed)) / n.
squares_overflow(observed) ==
    LET n == Len(observed) IN
    \E i \in 1..n :
        LET k == n * observed[i] - sum(observed) IN
        1000 * k * k > FloatMax * n * n

\* The largest square (o - p) ** 2 of a residual can be out of the float range
\* only if the curve is unbounded or the observations lie that far apart.
residuals_may_overflow(params, observed) ==
    \/ params.by = "curve_fit"
    \/ 1000 * (max(observed) - min(observed)) * (max(observed) - min(observed))
           > FloatMax

\* _r_squared(observed, predicted): ss_tot raises OverflowError when a square
\* is out of the float range, ss_res after it when the environment decides
\* that a square of a residual is; otherwise the float 1 - ss_res / ss_tot,
\* or 0.0 when the float ss_tot is zero, is returned, not computed. (In
\* floats ss_tot can be non-zero for equal observations, whose mean is
\* rounded, and zero for unequal ones, whose squares underflow.)
_r_squared(observed, predicted, residual_overflows) ==
    IF squares_overflow(observed) \/ residual_overflows
    THEN [out |-> OverflowError, result |-> <<>>]
    ELSE [out |-> Return,
          result |-> [observed |-> observed, predicted |-> predicted]]

\* The names of the parameters of a model.
parameter_names(model) ==
    IF model = "4PL" THEN <<"a", "b", "c", "d">> ELSE <<"a", "b", "c", "d", "g">>

\* FitResult(model=..., parameters=..., r_squared=r2, predictions=...,
\* converged=..., status=...)
FitResult(model, params, r2, points, converged, status) ==
    [model |-> model,
     parameters |-> [names |-> parameter_names(model), values |-> params],
     r_squared |-> r2,
     predictions |-> points,
     converged |-> converged,
     status |-> status]

\* What the environment decides in the tail of a fit: nothing raises, a curve
\* value of the predictions raises (an overflow of `**` or a division by
\* zero), or the square of a residual is out of the float range.
Tails == {"none", "curve overflows", "curve divides by zero", "residual overflows"}

\* The tails these parameters allow.  The parameters of the local optimizer
\* have had their loss evaluated, curve values and squares of residuals, and
\* the fallback vector has b = 1 (and g = 1), where the curve lies between
\* the smallest and the largest observation: only the parameters returned by
\* the delegate can make a curve value raise.
tails_of(params, observed) ==
    {"none"}
        \cup (IF params.by = "curve_fit"
              THEN {"curve overflows", "curve divides by zero"} ELSE {})
        \cup (IF params.by /= "descent" /\ residuals_may_overflow(params, observed)
              THEN {"residual overflows"} ELSE {})

\* The tail of fit_4pl and fit_5pl: the predictions, r2 and the FitResult
\* built from params, or the exception of the arithmetic.
finish_fit(model, x_list, y_list, params, converged, status, tail) ==
    LET points == predictions(model, x_list, params)
        r2 == _r_squared(y_list, [i \in 1..Len(points) |-> points[i][2]],
                         tail = "residual overflows")
    IN  IF tail = "curve overflows" THEN [out |-> OverflowError, result |-> <<>>]
        ELSE IF tail = "curve divides by zero"
        THEN [out |-> ZeroDivisionError, result |-> <<>>]
        ELSE IF r2.out.raised THEN r2
        ELSE [out |-> Return,
              result |-> FitResult(model, params, r2.result, points,
                                   converged, status)]

\* What the environment decides in one pass of the local optimizer: does a
\* loss evaluation raise (the curve overflows or divides by zero), is the
\* largest gradient component below the tolerance, is the change of the loss
\* below the tolerance.
Outcomes == [raises : BOOLEAN, grad_small : BOOLEAN, delta_small : BOOLEAN]

\* The ways a pass of the local optimizer ends.
Continue(gd, tests) ==
    [gd |-> gd, done |-> FALSE, out |-> Return, converged |-> FALSE,
     status |-> "", tests |-> tests]
Finish(gd, converged, status, tests) ==
    [gd |-> gd, done |-> TRUE, out |-> Return, converged |-> converged,
     status |-> status, tests |-> tests]
Abort(gd) ==
    [gd |-> gd, done |-> TRUE,
     out |-> Raise("ArithmeticError", "loss evaluation failed", <<>>),
     converged |-> FALSE, status |-> "", tests |-> <<>>]

\* Variant of _gradient_descent that updates the parameters before it tests
\* the gradient.
_gradient_descent_UpdateFirst(gd, max_iterations, o) ==
    IF ~gd.started
    THEN IF o.raises THEN Abort(gd)
         ELSE Continue([gd EXCEPT !.started = TRUE], <<>>)
    ELSE IF gd.iteration >= max_iterations
    THEN Finish(gd, FALSE, "Maximum iterations reached", <<>>)
    ELSE IF o.raises THEN Abort(gd)
    ELSE LET moved == [gd EXCEPT !.params.updates = @ + 1] IN
         IF o.grad_small
         THEN Finish(moved, TRUE, "Converged by gradient tolerance",
                     <<"gradient below tolerance">>)
         ELSE IF o.delta_small
         THEN Finish(moved, TRUE, "Converged by tolerance",
                     <<"gradient above tolerance", "loss change below tolerance">>)
         ELSE Continue([moved EXCEPT !.iteration = @ + 1],
                       <<"gradient above tolerance", "loss change above tolerance">>)

\* _gradient_descent, one pass: the first pass copies the initial parameters
\* and evaluates their loss; every later pass is one turn of the loop
\* `for iteration in range(max_iterations)`, or the return after it.
_gradient_descent(gd, max_iterations, o) ==
    IF ~gd.started
    THEN IF o.raises THEN Abort(gd)
         ELSE Continue([gd EXCEPT !.started = TRUE], <<>>)
    ELSE IF gd.iteration >= max_iterations
    THEN Finish(gd, FALSE, "Maximum iterations reached", <<>>)
    ELSE IF o.raises THEN Abort(gd)
    ELSE IF o.grad_small
    THEN Finish(gd, TRUE, "Converged by gradient tolerance",
                <<"gradient below tolerance">>)
    ELSE LET moved == [gd EXCEPT !.params.updates = @ + 1] IN
         IF o.delta_small
         THEN Finish(moved, TRUE, "Converged by tolerance",
                     <<"gradient above tolerance", "loss change below tolerance">>)
         ELSE Continue([moved EXCEPT !.iteration = @ + 1],
                       <<"gradient above tolerance", "loss change above tolerance">>)

\* Variant of select_backend in which only "auto" reaches the delegate.
select_backend_AutoOnly(backend, optimize) ==
    IF backend = "auto" /\ optimize /= None
    THEN "curve_fit"
    ELSE "_gradient_descent"

\* The choice of the backend in fit_4pl and fit_5pl:
\* use_scipy = backend == "scipy" or (backend == "auto" and optimize is not None)
\* if use_scipy and optimize is not None: curve_fit, else: _gradient_descent
select_backend(backend, optimize) ==
    LET use_scipy == backend = "scipy" \/ (backend = "auto" /\ optimize /= None) IN
    IF use_scipy /\ optimize /= None
    THEN "curve_fit"
    ELSE "_gradient_descent"

\* The parameters kept when optimize.curve_fit raises:
\* [a0, b0, c0, d0] in fit_4pl, [a0, b0, max(c0, 1e-6), d0, g0] in fit_5pl.
fallback_parameters(model, s) ==
    IF model = "4PL"
    THEN <<s.a0, s.b0, s.c0, s.d0>>
    ELSE <<s.a0, s.b0, floored(s.c0), s.d0, s.g0>>

\* The outcome of a finished call.
Raised(exc) == [out |-> exc, result |-> <<>>]
Returned(result) == [out |-> Return, result |-> result]

FitInit ==
    /\ SOPUnused /\ QCUnused /\ DAGUnused /\ DeckUnused /\ LIMSUnused
    /\ scipy_present \in BOOLEAN
    /\ fit_call = <<>>
    /\ fit_pc = "idle"
    /\ fit_state = <<>>
    /\ fit_trace = <<>>
    /\ fit_ret = <<>>

\* fit_4pl and fit_5pl from the call to the choice of the backend: the
\* validation, the starting values, the import of the delegate library.
fit(model, xs, ys, backend, max_iterations) ==
    /\ fit_pc = "idle"
    /\ fit_call' = [model |-> model, xs |-> xs, ys |-> ys, backend |-> backend,
                    max_iterations |-> max_iterations]
    /\ LET checked == _validate_inputs(xs, ys) IN
       IF checked.raised
       THEN /\ fit_pc' = "done"
            /\ fit_ret' = Raised(checked)
            /\ UNCHANGED <<fit_state, fit_trace>>
       ELSE LET s == starting_values(xs, ys)
                guess == initial_guess(model, s)
                chosen == select_backend(backend, _maybe_import_scipy_optimize)
            IN  /\ fit_pc' = chosen
                /\ fit_state' = [values |-> s,
                                 guess |-> guess,
                                 gd |-> [params |-> Params(guess, "descent", 0),
                                         iteration |-> 0,
                                         started |-> FALSE],
                                 returned |-> None]
                /\ fit_trace' = <<chosen>>
                /\ UNCHANGED fit_ret
    /\ UNCHANGED scipy_present

fit_4pl(xs, ys, backend, max_iterations) ==
    fit("4PL", xs, ys, backend, max_iterations)

fit_5pl(xs, ys, backend, max_iterations) ==
    fit("5PL", xs, ys, backend, max_iterations)

\* The parameters, flag and status the delegate branch leaves.
delegate_result(model, failure) ==
    [params |-> IF failure = None
                THEN Params(fit_state.guess, "curve_fit", 0)
                ELSE Params(fallback_parameters(model, fit_state.values), "given", 0),
     converged |-> failure = None,
     status |-> IF failure = None
                THEN "SciPy backend converged"
                ELSE "SciPy backend failed: " \o Val(failure)]

\* The delegate branch: optimize.curve_fit returns fitted parameters
\* (failure = None) or raises (failure = Some(str(exc))); the exception is
\* caught and the tail of the fit is run either way.
curve_fit(failure, tail) ==
    /\ fit_pc = "curve_fit"
    /\ LET r == delegate_result(fit_call.model, failure) IN
       /\ tail \in tails_of(r.params, fit_call.ys)
       /\ fit_ret' = finish_fit(fit_call.model, fit_call.xs, fit_call.ys,
                                r.params, r.converged, r.status, tail)
    /\ fit_pc' = "done"
    /\ fit_trace' = Append(fit_trace, IF failure = None THEN "curve_fit returned"
                                                       ELSE "curve_fit raised")
    /\ UNCHANGED <<scipy_present, fit_call, fit_state>>

\* The local branch: one pass of _gradient_descent; when it returns, the
\* tail of the fit is run on its parameters, flag and status; when a loss
\* evaluation raises, the exception leaves the fit.
descend(o) ==
    /\ fit_pc = "_gradient_descent"
    /\ LET r == _gradient_descent(fit_state.gd, fit_call.max_iterations, o) IN
       /\ fit_state' = [fit_state EXCEPT
                            !.gd = r.gd,
                            !.returned = IF r.done /\ ~r.out.raised
                                         THEN Some([params |-> r.gd.params,
                                                    converged |-> r.converged,
                                                    status |-> r.status])
                                         ELSE None]
       /\ fit_trace' = fit_trace \o r.tests
       /\ IF ~r.done
          THEN UNCHANGED <<fit_pc, fit_ret>>
          ELSE /\ fit_pc' = "done"
               /\ fit_ret' = IF r.out.raised
                             THEN Raised(r.out)
                             ELSE finish_fit(fit_call.model, fit_call.xs,
                                             fit_call.ys, r.gd.params,
                                             r.converged, r.status, "none")
    /\ UNCHANGED <<scipy_present, fit_call>>

\* The steps of a fit; the sequencer and the quality control stand still.
FitOnly == UNCHANGED <<SOPVars, QCVars, DAGVars, DeckVars, LIMSVars>>
Fit4PL ==
    /\ fit_pc = "idle"
    /\ \E xs \in Lists(XValues, MaxPoints), ys \in Lists(YValues, MaxPoints),
          backend \in Backends, max_iterations \in 0..MaxIterations :
           fit_4pl(xs, ys, backend, max_iterations) /\ FitOnly
Fit5PL ==
    /\ fit_pc = "idle"
    /\ \E xs \in Lists(XValues, MaxPoints), ys \in Lists(YValues, MaxPoints),
          backend \in Backends, max_iterations \in 0..MaxIterations :
           fit_5pl(xs, ys, backend, max_iterations) /\ FitOnly
CurveFit ==
    \E failure \in {None} \cup { Some(d) : d \in DelegateFailures }, tail \in Tails :
        curve_fit(failure, tail) /\ FitOnly
Descend == \E o \in Outcomes : descend(o) /\ FitOnly

FitNext ==
    \/ Fit4PL
    \/ Fit5PL
    \/ CurveFit
    \/ Descend

\* One fit call in a process with or without the delegate library.
SpecFit ==
    /\ FitInit
    /\ [][FitNext]_vars

-----------------------------------------------------------------------------
\* Vocabulary of the properties of the fits.

\* The fit call has ended, by a return or by an exception.
FitDone == fit_pc = "done"

\* The fit call has ended with the validation error of this message.
ValidationError(msg) ==
    /\ FitDone
    /\ fit_ret.out.raised
    /\ fit_ret.out.type = "ValueError"
    /\ fit_ret.out.msg = msg

NonEmptyError == ValidationError("xs and ys must be non-empty")
SameLengthError == ValidationError("xs and ys must have the same length")
PositivityError ==
    ValidationError("Concentrations must be positive for logistic fitting")

\* The defects of the input of the call.
SomeEmpty == fit_call.xs = <<>> \/ fit_call.ys = <<>>
LengthsDiffer == Len(fit_call.xs) /= Len(fit_call.ys)
SomeNonPositive == \E i \in 1..Len(fit_call.xs) : fit_call.xs[i] <= 0
ValidInput == ~SomeEmpty /\ ~LengthsDiffer /\ ~SomeNonPositive

\* No backend was invoked: neither the delegate nor the local optimizer.
NoBackendInvoked == fit_trace = <<>> /\ fit_state = <<>>

\* The call went to the delegate / to the local optimizer.
UsedDelegate == fit_trace /= <<>> /\ fit_trace[1] = "curve_fit"
UsedLocalOptimizer == fit_trace /= <<>> /\ fit_trace[1] = "_gradient_descent"

\* The call has returned a FitResult.
FitReturned == FitDone /\ ~fit_ret.out.raised

-----------------------------------------------------------------------------
\* C11 (as stated): fit_4pl and fit_5pl validate before any backend is
\* invoked and fail with a non-empty error when xs or ys is empty, with a
\* same-length error when the lengths differ, and with a positivity error when
\* any x is zero or negative; valid inputs never raise a validation error.
C11_ValidationAsStated ==
    FitDone =>
        /\ SomeEmpty => NonEmptyError
        /\ LengthsDiffer => SameLengthError
        /\ SomeNonPositive => PositivityError
        /\ ~ValidInput => NoBackendInvoked
        /\ ValidInput => ~(fit_ret.out.raised /\ fit_ret.out.type = "ValueError")

\* C11 (amended): the three checks are made in this order and the first that
\* fails decides the error: a non-empty error when xs or ys is empty; a
\* same-length error when both are non-empty and the lengths differ; a
\* positivity error when both are non-empty, the lengths agree and some x is
\* zero or negative.  No backend is invoked on invalid input, and valid
\* inputs never raise a validation error.
C11_ValidationInOrder ==
    FitDone =>
        /\ SomeEmpty => NonEmptyError
        /\ ~SomeEmpty /\ LengthsDiffer => SameLengthError
        /\ ~SomeEmpty /\ ~LengthsDiffer /\ SomeNonPositive => PositivityError
        /\ ~ValidInput => NoBackendInvoked
        /\ ValidInput => ~(fit_ret.out.raised /\ fit_ret.out.type = "ValueError")

\* A call with a non-positive x and lists of different lengths has failed with
\* the same-length error before any backend was invoked.
C11_Witness ==
    /\ FitDone
    /\ ~SomeEmpty /\ LengthsDiffer /\ SomeNonPositive
    /\ SameLengthError
    /\ NoBackendInvoked

-----------------------------------------------------------------------------
\* The local optimizer has made all max_iterations iterations of its loop
\* (none when max_iterations = 0) and neither tolerance test has triggered.
RanOut ==
    /\ UsedLocalOptimizer
    /\ fit_state.gd.started
    /\ fit_state.gd.iteration = fit_call.max_iterations
    /\ \A k \in 1..Len(fit_trace) :
           fit_trace[k] \notin {"gradient below tolerance", "loss change below tolerance"}

\* C12: the local optimizer makes at most max_iterations iterations and every
\* pass of it ends; when it has made them all without either stopping
\* criterion triggering (also when max_iterations = 0) it returns
\* converged = false with the status "Maximum iterations reached" and the
\* parameter vector of the last update, and the fit returns a FitResult with
\* that flag and status instead of raising; backend "gradient" always goes to
\* the local optimizer.
C12_OptimizerTerminates ==
    /\ fit_pc /= "idle" /\ fit_call.backend = "gradient" /\ ValidInput
           => UsedLocalOptimizer
    /\ UsedLocalOptimizer =>
           /\ fit_state.gd.iteration <= fit_call.max_iterations
           /\ fit_state.gd.params.updates <= fit_call.max_iterations
           /\ ~FitDone => ENABLED Descend
           /\ FitDone /\ RanOut =>
                  /\ FitReturned
                  /\ fit_ret.result.converged = FALSE
                  /\ fit_ret.result.status = "Maximum iterations reached"
                  /\ fit_ret.result.parameters.values
                         = Params(fit_state.guess, "descent", fit_call.max_iterations)
           /\ FitReturned /\ fit_ret.result.status = "Maximum iterations reached"
                  => RanOut

-----------------------------------------------------------------------------
\* A valid call has chosen its backend.
BackendChosen == fit_pc /= "idle" /\ ValidInput

\* C13 (as stated): preference "auto" uses the delegate when the library is
\* present and the local optimizer otherwise; preference "scipy" forces the
\* delegate; every other preference forces the local optimizer, whether or
\* not the library is present.
C13_BackendAsStated ==
    BackendChosen =>
        /\ UsedDelegate /= UsedLocalOptimizer
        /\ fit_call.backend = "auto" => (UsedDelegate <=> scipy_present)
        /\ fit_call.backend = "scipy" => UsedDelegate
        /\ fit_call.backend \notin {"auto", "scipy"} => UsedLocalOptimizer

\* C13 (amended): preferences "auto" and "scipy" both use the delegate when
\* the library is present and the local optimizer when it is absent; every
\* other preference (including "gradient") uses the local optimizer, whether
\* or not the library is present.
C13_BackendByPresence ==
    BackendChosen =>
        /\ UsedDelegate /= UsedLocalOptimizer
        /\ fit_call.backend = "auto" => (UsedDelegate <=> scipy_present)
        /\ fit_call.backend = "scipy" => (UsedDelegate <=> scipy_present)
        /\ fit_call.backend \notin {"auto", "scipy"} => UsedLocalOptimizer

\* A call with preference "scipy" in a process without the library has
\* returned a FitResult made by the local optimizer.
C13_Witness ==
    /\ FitReturned
    /\ fit_call.backend = "scipy"
    /\ ~scipy_present
    /\ UsedLocalOptimizer
    /\ fit_ret.result.status \in {"Maximum iterations reached",
                                  "Converged by tolerance",
                                  "Converged by gradient tolerance"}

-----------------------------------------------------------------------------
\* The delegate was called and its fit call raised.
DelegateFailed ==
    /\ FitDone
    /\ UsedDelegate
    /\ fit_trace[Len(fit_trace)] = "curve_fit raised"

\* C14: when the delegate is selected and its fit call fails, fit_4pl and
\* fit_5pl do not propagate the exception and do not run the local
\* optimizer: they return a FitResult whose parameters are the initial guess
\* unmodified, with converged = false and a status that embeds the
\* description of the failure.
C14_DelegateFailureKeepsGuess ==
    DelegateFailed =>
        /\ FitReturned
        /\ ~fit_state.gd.started
        /\ \A k \in 1..Len(fit_trace) : fit_trace[k] /= "_gradient_descent"
        /\ IsVector(fit_ret.result.parameters.values, fit_state.guess)
        /\ fit_ret.result.converged = FALSE
        /\ fit_ret.result.status
               \in { "SciPy backend failed: " \o d : d \in DelegateFailures }

-----------------------------------------------------------------------------
\* C15: the predictions of a FitResult are aligned one to one with the input
\* xs: as many points as xs has elements, the k-th point carrying the k-th
\* x, so the order is kept and repeated x values are neither merged nor
\* dropped.
C15_PredictionsAligned ==
    FitReturned =>
        /\ Len(fit_ret.result.predictions) = Len(fit_call.xs)
        /\ \A k \in 1..Len(fit_call.xs) :
               fit_ret.result.predictions[k][1] = fit_call.xs[k]

\* A fit of two points at the same x has returned two predictions, both at
\* that x.
C15_Witness ==
    /\ FitReturned
    /\ Len(fit_call.xs) = 2
    /\ fit_call.xs[1] = fit_call.xs[2]
    /\ Len(fit_ret.result.predictions) = 2
    /\ fit_ret.result.predictions[1][1] = fit_call.xs[1]
    /\ fit_ret.result.predictions[2][1] = fit_call.xs[2]

-----------------------------------------------------------------------------
\* One iteration of the loop of the local optimizer, seen from outside.

\* The tests this step adds to the trace.
TestsOfStep == SubSeq(fit_trace', Len(fit_trace) + 1, Len(fit_trace'))

\* This step is a turn of the loop of the local optimizer.
LoopStep ==
    /\ fit_pc = "_gradient_descent"
    /\ fit_state.gd.started
    /\ fit_trace' /= fit_trace

\* In this step the local optimizer returns this flag, status and parameter
\* vector, and the FitResult of the fit, when its tail returns one, carries
\* them.
ReturnsWith(converged, status, params) ==
    /\ fit_pc' = "done"
    /\ fit_state'.returned
           = Some([params |-> params, converged |-> converged, status |-> status])
    /\ ~fit_ret'.out.raised =>
           /\ fit_ret'.result.converged = converged
           /\ fit_ret'.result.status = status
           /\ fit_ret'.result.parameters.values = params

\* C21: every iteration of the local optimizer tests the gradient first; when
\* it is below the tolerance the current parameters are returned unchanged
\* with converged = true and the status "Converged by gradient tolerance";
\* only when it is not are the parameters updated (once) and the change of
\* the loss tested after that, and when that change is below the tolerance
\* the updated parameters are returned with converged = true and the status
\* "Converged by tolerance"; neither status is returned in any other way.
C21_GradientBeforeUpdate ==
    [][ /\ LoopStep =>
              /\ TestsOfStep[1] \in {"gradient below tolerance",
                                     "gradient above tolerance"}
              /\ TestsOfStep[1] = "gradient below tolerance" =>
                    /\ Len(TestsOfStep) = 1
                    /\ fit_state'.gd.params = fit_state.gd.params
                    /\ ReturnsWith(TRUE, "Converged by gradient tolerance",
                                   fit_state.gd.params)
              /\ TestsOfStep[1] = "gradient above tolerance" =>
                    /\ Len(TestsOfStep) = 2
                    /\ fit_state'.gd.params
                          = [fit_state.gd.params EXCEPT !.updates = @ + 1]
                    /\ TestsOfStep[2] \in {"loss change below tolerance",
                                           "loss change above tolerance"}
                    /\ TestsOfStep[2] = "loss change below tolerance" =>
                          ReturnsWith(TRUE, "Converged by tolerance",
                                      fit_state'.gd.params)
                    /\ TestsOfStep[2] = "loss change above tolerance" =>
                          fit_pc' = "_gradient_descent"
        /\ fit_pc = "_gradient_descent" /\ fit_state'.gd.params /= fit_state.gd.params
              => LoopStep /\ TestsOfStep[1] = "gradient above tolerance"
        /\ fit_pc = "_gradient_descent" /\ fit_state'.returned /= None =>
              /\ Val(fit_state'.returned).status = "Converged by gradient tolerance"
                    => LoopStep /\ TestsOfStep = <<"gradient below tolerance">>
              /\ Val(fit_state'.returned).status = "Converged by tolerance"
                    => LoopStep /\ TestsOfStep[Len(TestsOfStep)]
                                      = "loss change below tolerance" ]_FitVars

\* The gradient of the initial vector was below the tolerance: the fit has
\* returned that vector, after no update, as converged by gradient tolerance.
C21_Witness ==
    /\ FitReturned
    /\ UsedLocalOptimizer
    /\ fit_trace = <<"_gradient_descent", "gradient below tolerance">>
    /\ fit_ret.result.converged = TRUE
    /\ fit_ret.result.status = "Converged by gradient tolerance"
    /\ fit_ret.result.parameters.values.updates = 0
    /\ IsVector(fit_ret.result.parameters.values, fit_state.guess)

-----------------------------------------------------------------------------
\* Westgard rules (src/qc/westgard.py).

\* Floats (IEEE 754 binary64, round to nearest, ties to even) as far as
\* ControlResult.z_score and check_westgard use them.  A float is its sign,
\* its significand, a natural number below 2^53 that is at least 2^52 unless
\* the float is zero, and its exponent: it is significand * 2^exponent.
\* Naturals below 2^116 are held as four limbs of 29 bits, lowest first.
\* Infinities, subnormal floats and the sign of zero are outside the model.
LimbBits == 29             \* bits of a limb
Precision == 53            \* bits of a significand
DigitBits == 5             \* bits of one digit of a quotient
QuotientDigits == 11       \* digits of a quotient below its first bit
ExactShift == 62           \* the widest shift that keeps a sum in four limbs

LimbBase == 2 ^ LimbBits
Zero4 == <<0, 0, 0, 0>>
Limbs(n) == <<n % LimbBase, n \div LimbBase, 0, 0>>
Limb(a, i) == IF i \in 1..4 THEN a[i] ELSE 0

Geq(a, b) ==
    \/ a[4] > b[4]
    \/ a[4] = b[4] /\ a[3] > b[3]
    \/ a[4] = b[4] /\ a[3] = b[3] /\ a[2] > b[2]
    \/ a[4] = b[4] /\ a[3] = b[3] /\ a[2] = b[2] /\ a[1] >= b[1]

Add(a, b) ==
    LET s1 == a[1] + b[1]
        s2 == a[2] + b[2] + s1 \div LimbBase
        s3 == a[3] + b[3] + s2 \div LimbBase
        s4 == a[4] + b[4] + s3 \div LimbBase
    IN  <<s1 % LimbBase, s2 % LimbBase, s3 % LimbBase, s4>>

\* a - b for a >= b
Sub(a, b) ==
    LET s1 == a[1] - b[1]
        b1 == IF s1 < 0 THEN 1 ELSE 0
        s2 == a[2] - b[2] - b1
        b2 == IF s2 < 0 THEN 1 ELSE 0
        s3 == a[3] - b[3] - b2
        b3 == IF s3 < 0 THEN 1 ELSE 0
    IN  <<s1 + b1 * LimbBase, s2 + b2 * LimbBase, s3 + b3 * LimbBase,
          a[4] - b[4] - b3>>

Odd(a) == a[1] % 2 = 1

\* a * 2^k and a \div 2^k
Shl(a, k) ==
    IF k = 0 THEN a ELSE
    LET w == k \div LimbBits
        cut == 2 ^ (LimbBits - (k % LimbBits))
        up == 2 ^ (k % LimbBits)
        limb(i) == (Limb(a, i - w) % cut) * up + Limb(a, i - w - 1) \div cut
    IN  <<limb(1), limb(2), limb(3), limb(4)>>
Shr(a, k) ==
    IF k = 0 THEN a ELSE
    LET w == k \div LimbBits
        cut == 2 ^ (k % LimbBits)
        up == 2 ^ (LimbBits - (k % LimbBits))
        limb(i) == Limb(a, i + w) \div cut + (Limb(a, i + w + 1) % cut) * up
    IN  <<limb(1), limb(2), limb(3), limb(4)>>

\* The number of bits of a
BitLength(a) ==
    IF a = Zero4 THEN 0
    ELSE LET top == IF a[4] /= 0 THEN 4 ELSE IF a[3] /= 0 THEN 3
                    ELSE IF a[2] /= 0 THEN 2 ELSE 1
             high == a[top]
             bits == CHOOSE k \in 1..LimbBits : high \div (2 ^ (k - 1)) = 1
         IN  LimbBits * (top - 1) + bits

FloatZero == [neg |-> FALSE, man |-> Zero4, exp |-> 0]
IsZero(f) == f.man = Zero4

\* The float of this sign nearest to man * 2^exp, or to a number just above
\* it when more is set.
rounded(neg, man, exp, more) ==
    LET length == BitLength(man) IN
    IF length = 0 THEN FloatZero
    ELSE IF length <= Precision
    THEN [neg |-> neg, man |-> Shl(man, Precision - length),
          exp |-> exp - (Precision - length)]
    ELSE LET drop == length - Precision
             kept == Shr(man, drop)
             rest == Sub(man, Shl(kept, drop))
             half == Shl(Limbs(1), drop - 1)
             up == IF rest = half THEN more \/ Odd(kept) ELSE Geq(rest, half)
             m == IF up THEN Add(kept, Limbs(1)) ELSE kept
         IN  IF BitLength(m) > Precision
             THEN [neg |-> neg, man |-> Shr(m, 1), exp |-> exp + drop + 1]
             ELSE [neg |-> neg, man |-> m, exp |-> exp + drop]

\* float(n) of a whole number n
float(n) ==
    IF n < 0 THEN rounded(TRUE, Limbs(-n), 0, FALSE)
    ELSE rounded(FALSE, Limbs(n), 0, FALSE)

negated(f) == IF IsZero(f) THEN f ELSE [f EXCEPT !.neg = ~f.neg]
absolute(f) == [f EXCEPT !.neg = FALSE]

\* abs(a) >= abs(b)
magnitude_geq(a, b) ==
    \/ IsZero(b)
    \/ ~IsZero(a) /\ (a.exp > b.exp \/ (a.exp = b.exp /\ Geq(a.man, b.man)))

\* a + b
float_add(a, b) ==
    IF IsZero(a) THEN b
    ELSE IF IsZero(b) THEN a
    ELSE IF a.exp - b.exp > ExactShift THEN a
    ELSE IF b.exp - a.exp > ExactShift THEN b
    ELSE LET e == IF a.exp < b.exp THEN a.exp ELSE b.exp
             x == Shl(a.man, a.exp - e)
             y == Shl(b.man, b.exp - e)
         IN  IF a.neg = b.neg THEN rounded(a.neg, Add(x, y), e, FALSE)
             ELSE IF Geq(x, y) THEN rounded(a.neg, Sub(x, y), e, FALSE)
             ELSE rounded(b.neg, Sub(y, x), e, FALSE)

\* a - b
float_sub(a, b) == float_add(a, negated(b))

\* One more bit of the quotient of a division by d: the remainder r, which
\* is below d, is doubled and d is taken from it when it fits.
quotient_bit(s, d) ==
    LET doubled == Shl(s.r, 1) IN
    IF Geq(doubled, d)
    THEN [q |-> Add(Shl(s.q, 1), Limbs(1)), r |-> Sub(doubled, d)]
    ELSE [q |-> Shl(s.q, 1), r |-> doubled]

\* One more digit, of five bits.
quotient_digit(s, d) ==
    quotient_bit(quotient_bit(quotient_bit(quotient_bit(quotient_bit(s, d), d), d), d), d)

\* n more digits, one after the other; once the remainder is zero the digits
\* left are zeros.
RECURSIVE quotient_digits(_, _, _)
quotient_digits(s, d, n) ==
    IF n = 0 THEN s
    ELSE IF s.r = Zero4 THEN [q |-> Shl(s.q, DigitBits * n), r |-> Zero4]
    ELSE quotient_digits(quotient_digit(s, d), d, n - 1)

\* a / b for b that is not zero: the first bit of the quotient of the
\* significands and eleven digits after it, rounded; what the remainder
\* leaves out lies above the quotient kept.
float_div(a, b) ==
    IF IsZero(a) \/ IsZero(b) THEN FloatZero
    ELSE LET d == b.man
             first == IF Geq(a.man, d) THEN [q |-> Limbs(1), r |-> Sub(a.man, d)]
                                       ELSE [q |-> Zero4, r |-> a.man]
             final == quotient_digits(first, d, QuotientDigits)
         IN  rounded(a.neg /= b.neg, final.q,
                     a.exp - b.exp - DigitBits * QuotientDigits, final.r /= Zero4)

\* a >= b
float_geq(a, b) ==
    IF IsZero(a) /\ IsZero(b) THEN TRUE
    ELSE IF IsZero(a) THEN b.neg
    ELSE IF IsZero(b) THEN ~a.neg
    ELSE IF a.neg /= b.neg THEN b.neg
    ELSE IF a.neg THEN magnitude_geq(b, a)
    ELSE magnitude_geq(a, b)

\* a > 0, a < 0 and a * b < 0 (the product of two floats that are not zero
\* has the sign of the real product)
Positive(f) == ~IsZero(f) /\ ~f.neg
Negative(f) == ~IsZero(f) /\ f.neg
OppositeSides(a, b) == ~IsZero(a) /\ ~IsZero(b) /\ a.neg /= b.neg

\* The float nearest to a decimal number of two places, given as its count
\* of hundredths: float("0.9") is 90 / 100 rounded once.
decimal(hundredths) == float_div(float(hundredths), float(100))

\* Bounds of the control lists.
MaxControls == 5    \* controls in a list drawn from the deviations
MaxRun == 10        \* controls in a list drawn from the runs
MaxDecimals == 4    \* controls in a list drawn from the decimals

\* ControlResult(run, value, mean, sd). value, mean and sd are decimal
\* numbers of two places, held as their counts of hundredths; the floats the
\* code holds are decimal(value), decimal(mean) and decimal(sd).
ControlResult(run, value, mu, sd) ==
    [run |-> run, value |-> value, mean |-> mu, sd |-> sd]

\* Controls of many deviations, with mean 10 and sd 1: z = -1, 1, 2, 3, 4
\* and 5, and one with sd = 0 that lies five units above its mean.
Deviations ==
    { ControlResult(1, 900, 1000, 100), ControlResult(2, 1100, 1000, 100),
      ControlResult(3, 1200, 1000, 100), ControlResult(4, 1300, 1000, 100),
      ControlResult(5, 1400, 1000, 100), ControlResult(6, 1500, 1000, 100),
      ControlResult(7, 1500, 1000, 0) }

\* Controls one deviation above and below the mean, and one with sd = 0 above
\* its mean, for long lists.
Runs ==
    { ControlResult(1, 1100, 1000, 100), ControlResult(2, 900, 1000, 100),
      ControlResult(3, 1200, 1000, 0) }

\* The controls the form of the front end starts with (src/frontend.py
\* l.199): 0.9, 1.1, 1.0 and 1.05 with mean 1.0 and sd 0.05; and one at
\* z = 5/2, with mean 10 and sd 2.
Decimals ==
    { ControlResult(1, 90, 100, 5), ControlResult(2, 110, 100, 5),
      ControlResult(3, 100, 100, 5), ControlResult(4, 105, 100, 5),
      ControlResult(5, 1500, 1000, 200) }

Pools == {"deviations", "runs", "decimals"}
Controls(p) ==
    CASE p = "deviations" -> Deviations
      [] p = "runs" -> Runs
      [] p = "decimals" -> Decimals
Limit(p) ==
    CASE p = "deviations" -> MaxControls
      [] p = "runs" -> MaxRun
      [] p = "decimals" -> MaxDecimals

\* Variant of z_score in which a control with sd = 0 counts every unit of
\* its deviation as one standard deviation.
z_score_UnitSd(c) ==
    IF c.sd /= 0
    THEN float_div(float_sub(decimal(c.value), decimal(c.mean)), decimal(c.sd))
    ELSE float_sub(decimal(c.value), decimal(c.mean))

\* ControlResult.z_score: (self.value - self.mean) / self.sd if self.sd
\* else 0.0, on floats: the difference is rounded and the quotient is
\* rounded. 0.9 with mean 1.0 and sd 0.05 gives -1.9999999999999996, and
\* 1.1 gives 2.0000000000000018.
z_score(c) ==
    IF c.sd /= 0
    THEN float_div(float_sub(decimal(c.value), decimal(c.mean)), decimal(c.sd))
    ELSE FloatZero

\* r.z_score of a control of the pool: the property is a function of the
\* fields of the control, and its float is held with the control.
score(c) == (CHOOSE known \in scores : known[1] = c)[2]

\* z_scores = [r.z_score for r in results]
z_scores(rs) == [k \in 1..Len(rs) |-> score(rs[k])]

\* z_scores[idx] with the 0-based index of the code
At(z, idx) == z[idx + 1]

\* The floats of the whole numbers of the rules, and float(k) of any whole
\* number.
one == float(1)
two == float(2)
three == float(3)
four == float(4)
whole(k) ==
    CASE k = 1 -> one
      [] k = 2 -> two
      [] k = 3 -> three
      [] k = 4 -> four
      [] OTHER -> float(k)

\* abs(z) >= k for k = 1, 2, 3, 4, the limits of the rules
AtLeast(z, k) == float_geq(absolute(z), whole(k))

\* The keys of the report.
RuleNames == {"1_2s", "1_3s", "2_2s", "r_4s", "4_1s", "10_x"}

\* if abs(z) >= 2
rule_1_2s(z, idx) == AtLeast(At(z, idx), 2)

\* if abs(z) >= 3
rule_1_3s(z, idx) == AtLeast(At(z, idx), 3)

\* Variant of rule_r_4s without the test of the sides.
rule_r_4s_AnySide(z, idx) ==
    /\ idx >= 1
    /\ AtLeast(float_sub(At(z, idx), At(z, idx - 1)), 4)

\* if idx >= 1: separation = abs(z - z_scores[idx - 1]);
\*              if separation >= 4 and z * z_scores[idx - 1] < 0
rule_r_4s(z, idx) ==
    /\ idx >= 1
    /\ AtLeast(float_sub(At(z, idx), At(z, idx - 1)), 4)
    /\ OppositeSides(At(z, idx), At(z, idx - 1))

\* if idx >= 1 and abs(z) >= 2 and abs(z_scores[idx - 1]) >= 2
rule_2_2s(z, idx) ==
    /\ idx >= 1
    /\ AtLeast(At(z, idx), 2)
    /\ AtLeast(At(z, idx - 1), 2)

\* Variant of rule_4_1s that asks the four controls to lie on one side.
rule_4_1s_OneSide(z, idx) ==
    /\ idx >= 3
    /\ \/ \A j \in (idx - 3)..idx : AtLeast(At(z, j), 1) /\ Positive(At(z, j))
       \/ \A j \in (idx - 3)..idx : AtLeast(At(z, j), 1) /\ Negative(At(z, j))

\* if idx >= 3 and all(abs(z_scores[j]) >= 1 for j in range(idx - 3, idx + 1))
rule_4_1s(z, idx) ==
    /\ idx >= 3
    /\ \A j \in (idx - 3)..idx : AtLeast(At(z, j), 1)

\* Variant of rule_10_x in which a zero does not break the run.
rule_10_x_ZeroKeeps(z, idx) ==
    /\ idx >= 9
    /\ LET window == SubSeq(z, idx - 8, idx + 1) IN
       \/ \A k \in 1..Len(window) : ~Negative(window[k])
       \/ \A k \in 1..Len(window) : ~Positive(window[k])

\* if idx >= 9: window = z_scores[idx - 9 : idx + 1];
\*              if all(val > 0 for val in window) or all(val < 0 for val in window)
rule_10_x(z, idx) ==
    /\ idx >= 9
    /\ LET window == SubSeq(z, idx - 8, idx + 1) IN
       \/ \A k \in 1..Len(window) : Positive(window[k])
       \/ \A k \in 1..Len(window) : Negative(window[k])

\* Does index idx breach this rule?
breached(rule, z, idx) ==
    CASE rule = "1_2s" -> rule_1_2s(z, idx)
      [] rule = "1_3s" -> rule_1_3s(z, idx)
      [] rule = "r_4s" -> rule_r_4s(z, idx)
      [] rule = "2_2s" -> rule_2_2s(z, idx)
      [] rule = "4_1s" -> rule_4_1s(z, idx)
      [] rule = "10_x" -> rule_10_x(z, idx)

\* Variant of scan that puts each breaching index in front of its list.
RECURSIVE scan_Prepend(_, _, _)
scan_Prepend(z, idx, report) ==
    IF idx >= Len(z) THEN report
    ELSE scan_Prepend(z, idx + 1,
                      [rule \in RuleNames |->
                          IF breached(rule, z, idx)
                          THEN <<idx>> \o report[rule]
                          ELSE report[rule]])

\* for idx, z in enumerate(z_scores): every rule that idx breaches gets idx
\* appended to its list.
RECURSIVE scan(_, _, _)
scan(z, idx, report) ==
    IF idx >= Len(z) THEN report
    ELSE scan(z, idx + 1,
              [rule \in RuleNames |->
                  IF breached(rule, z, idx)
                  THEN Append(report[rule], idx)
                  ELSE report[rule]])

\* check_westgard: the report starts with an empty list under each of the
\* six keys and is filled by one pass over the z-scores.
check_westgard(rs) ==
    scan(z_scores(rs), 0, [rule \in RuleNames |-> <<>>])

QCInit ==
    /\ SOPUnused /\ FitUnused /\ DAGUnused /\ DeckUnused /\ LIMSUnused
    /\ pool \in Pools
    /\ scores = { <<c, z_score(c)>> : c \in Controls(pool) }
    /\ results = <<>>
    /\ breaches = <<>>

\* check_westgard(rs): the call and the report it returns.
review(rs) ==
    /\ Len(rs) <= Limit(pool)
    /\ results' = rs
    /\ breaches' = check_westgard(rs)
    /\ UNCHANGED <<pool, scores>>

\* The quality control alone; the sequencer and the fits stand still.
QCOnly == UNCHANGED <<SOPVars, FitVars, DAGVars, DeckVars, LIMSVars>>

\* The first call is made on the empty list, every later one on the list of
\* the call before with one more control at its end.
ReviewNone == breaches = <<>> /\ review(<<>>) /\ QCOnly
ReviewMore ==
    \E c \in Controls(pool) :
        breaches /= <<>> /\ review(Append(results, c)) /\ QCOnly

QCNext ==
    \/ ReviewNone
    \/ ReviewMore

\* Reviews of growing lists of controls from one pool.
SpecQC ==
    /\ QCInit
    /\ [][QCNext]_vars

-----------------------------------------------------------------------------
\* Vocabulary of the properties of the quality control.

\* check_westgard has returned a report for the list in results.
Reported == breaches /= <<>>

\* The indices of the list, counted from 0 as the report counts them.
Indices == 0..(Len(results) - 1)

\* The z-score of the control at index i.
Z(i) == score(results[i + 1])

\* Index i is in the breach list of this rule.
Listed(rule, i) ==
    \E k \in 1..Len(breaches[rule]) : breaches[rule][k] = i

\* The ten controls that end at index i lie all above or all below the mean.
SameSideRun(i) ==
    /\ i >= 9
    /\ \/ \A j \in (i - 9)..i : Positive(Z(j))
       \/ \A j \in (i - 9)..i : Negative(Z(j))

-----------------------------------------------------------------------------
\* C16: index i is reported under 10_x exactly when i >= 9 and the ten
\* z-scores z[i-9..i] are all strictly positive or all strictly negative (a
\* zero or a change of sign in the window breaks the run); a list of exactly
\* ten controls on one side reports index 9 only, once.
C16_TenOnOneSide ==
    Reported =>
        /\ \A i \in Indices : Listed("10_x", i) <=> SameSideRun(i)
        /\ Len(results) = 10 /\ SameSideRun(9) => breaches["10_x"] = <<9>>

\* Ten controls on one side of the mean have been reviewed and index 9 alone
\* is reported under 10_x.
C16_Witness ==
    /\ Reported
    /\ Len(results) = 10
    /\ SameSideRun(9)
    /\ breaches["10_x"] = <<9>>

-----------------------------------------------------------------------------
\* The z-scores at i-1 and i are at least 4 apart.
FourApart(i) == AtLeast(float_sub(Z(i), Z(i - 1)), 4)

\* C17: index i is reported under r_4s exactly when i >= 1, z[i] and z[i-1]
\* lie on opposite sides of the mean and |z[i] - z[i-1]| >= 4; z = 3 followed
\* by z = -1 is reported, and a pair with a zero z-score or with both values
\* on one side is never reported.
C17_RangeRule ==
    Reported =>
        \A i \in Indices :
            /\ Listed("r_4s", i)
                   <=> (i >= 1 /\ OppositeSides(Z(i), Z(i - 1)) /\ FourApart(i))
            /\ i >= 1 /\ Z(i - 1) = whole(3) /\ Z(i) = whole(-1)
                   => Listed("r_4s", i)
            /\ i >= 1 /\ (IsZero(Z(i)) \/ IsZero(Z(i - 1))) => ~Listed("r_4s", i)
            /\ i >= 1 /\ Positive(Z(i)) /\ Positive(Z(i - 1)) => ~Listed("r_4s", i)
            /\ i >= 1 /\ Negative(Z(i)) /\ Negative(Z(i - 1)) => ~Listed("r_4s", i)

\* A control at z = 3 followed by one at z = -1 has been reviewed and the
\* second is reported under r_4s.
C17_Witness ==
    /\ Reported
    /\ Len(results) = 2
    /\ Z(0) = whole(3)
    /\ Z(1) = whole(-1)
    /\ breaches["r_4s"] = <<1>>

-----------------------------------------------------------------------------
\* C18: index i is reported under 4_1s exactly when i >= 3 and each of the
\* four z-scores z[i-3..i] has absolute value at least 1, on either side;
\* index i is reported under 1_2s exactly when |z[i]| >= 2; so five controls
\* with z-scores 1, 2, 3, 4, 5 breach both rules.
C18_FourAndOne ==
    Reported =>
        /\ \A i \in Indices :
               /\ Listed("4_1s", i)
                      <=> (i >= 3 /\ \A j \in (i - 3)..i : AtLeast(Z(j), 1))
               /\ Listed("1_2s", i) <=> AtLeast(Z(i), 2)
        /\ (Len(results) = 5 /\ \A i \in Indices : Z(i) = whole(i + 1))
               => breaches["4_1s"] /= <<>> /\ breaches["1_2s"] /= <<>>

\* Five controls with z-scores 1, 2, 3, 4, 5 have been reviewed: indices 3
\* and 4 are reported under 4_1s and indices 1 to 4 under 1_2s.
C18_Witness ==
    /\ Reported
    /\ Len(results) = 5
    /\ \A i \in Indices : Z(i) = whole(i + 1)
    /\ breaches["4_1s"] = <<3, 4>>
    /\ breaches["1_2s"] = <<1, 2, 3, 4>>

-----------------------------------------------------------------------------
\* Twice (value - mean) / sd, when that is a whole number and value, mean
\* and sd are whole numbers: the floats of the code are exact on these.
TwiceExact(c) ==
    IF /\ c.sd /= 0
       /\ c.value % 100 = 0 /\ c.mean % 100 = 0 /\ c.sd % 100 = 0
       /\ (2 * (c.value - c.mean)) % c.sd = 0
    THEN Some((2 * (c.value - c.mean)) \div c.sd)
    ELSE None

\* C19: the z-score of a control is (value - mean) / sd (value 11 with mean
\* 10 and sd 1 gives 1.0 exactly), and 0 when sd is zero; an index whose
\* control has sd = 0 is in no breach list, whatever its neighbours are.
C19_ZeroSd ==
    /\ \A i \in Indices :
           LET c == results[i + 1] IN
           /\ c.sd = 0 => IsZero(Z(i))
           /\ TwiceExact(c) /= None =>
                  LET twice == Val(TwiceExact(c)) IN
                  IF twice % 2 = 0 THEN Z(i) = whole(twice \div 2)
                  ELSE float_add(Z(i), Z(i)) = whole(twice)
           /\ c.value = 1100 /\ c.mean = 1000 /\ c.sd = 100 => Z(i) = whole(1)
    /\ Reported =>
           \A i \in Indices :
               results[i + 1].sd = 0 => \A rule \in RuleNames : ~Listed(rule, i)

\* A control with sd = 0, five units above its mean, stands between two
\* controls that breach 1_3s and is itself in no list.
C19_Witness ==
    /\ Reported
    /\ Len(results) = 3
    /\ results[2].sd = 0
    /\ results[2].value - results[2].mean = 500
    /\ Listed("1_3s", 0) /\ Listed("1_3s", 2)
    /\ \A rule \in RuleNames : ~Listed(rule, 1)

-----------------------------------------------------------------------------
\* C20: for every list, the empty one included, the report has exactly the
\* six keys 1_2s, 1_3s, 2_2s, r_4s, 4_1s and 10_x, and each breach list is in
\* strictly ascending order, without duplicates, of indices of the list; one
\* index may be under several rules.
C20_ReportShape ==
    Reported =>
        /\ DOMAIN breaches = {"1_2s", "1_3s", "2_2s", "r_4s", "4_1s", "10_x"}
        /\ \A rule \in DOMAIN breaches :
               /\ \A k \in 1..Len(breaches[rule]) : breaches[rule][k] \in Indices
               /\ \A k \in 1..(Len(breaches[rule]) - 1) :
                      breaches[rule][k] < breaches[rule][k + 1]

\* A report in which index 1 is under both 1_2s and 2_2s and the list of
\* 1_2s has several indices.
C20_Witness ==
    /\ Reported
    /\ Listed("1_2s", 1) /\ Listed("2_2s", 1)
    /\ Len(breaches["1_2s"]) >= 2
    /\ DOMAIN breaches = {"1_2s", "1_3s", "2_2s", "r_4s", "4_1s", "10_x"}

-----------------------------------------------------------------------------
\* Task runner (src/orchestrator/workflow.py).

\* Bound of the task runner.
MaxTasks == 3       \* tasks added to a DAG one by one

\* The names add_task is called with (a name may be added twice) and the
\* value a task returns.
TaskNames == {"prepare", "ingest"}
TaskOutputs == {"output"}

\* The names of the tasks build_full_run adds, in the order it adds them.
FullRunTasks ==
    << "plate-preparation-start", "plate-preparation-complete", "ingest",
       "plate-reading-start", "plate-reading-complete", "analytics",
       "analysis-and-qc-start", "qc", "analysis-and-qc-complete" >>

\* f"executed:{task.name}"
log_message(name) == "executed:" \o name

\* entry.startswith("executed"), for the messages a logger can hold
StartsWithExecuted(entry) ==
    \/ \E name \in TaskNames : entry = "executed:" \o name
    \/ \E k \in 1..Len(FullRunTasks) : entry = "executed:" \o FullRunTasks[k]

\* What a task or the template library raises.
TaskError(name) == Raise("Exception", "task failed", <<name>>)
TemplateMissing == Raise("FileNotFoundError", "Template elisa_basic not found", <<>>)

\* The calls of run made on the DAG. run has no guard, so the second call
\* can begin while the first is in progress (a task of a run, or a second
\* thread, calls run of the same DAG) as well as after it has ended, and the
\* logger keeps the entries of both.
RunCalls == {"first", "second"}

\* The call of build_full_run, beside the calls of run.
Builds == {"build_full_run"}

DAGInit ==
    /\ tasks = <<>>
    /\ entries = <<>>
    /\ run_pc = [c \in RunCalls |-> "idle"]
    /\ run_state = [c \in RunCalls |-> <<>>]
    /\ run_trace = [c \in RunCalls |-> <<>>]
    /\ run_ret = [c \in RunCalls \cup Builds |-> <<>>]
    /\ SOPUnused /\ FitUnused /\ QCUnused /\ DeckUnused /\ LIMSUnused

\* WorkflowDAG.add_task(name, func), also when called by a task of a run in
\* progress: the list the loop of run walks grows.
add_task(name) ==
    /\ Len(tasks) < MaxTasks
    /\ tasks' = Append(tasks, name)
    /\ UNCHANGED <<entries, run_pc, run_state, run_trace, run_ret>>

\* build_full_run: a new logger and a new DAG with the nine tasks, unless
\* the template of the SOP workflow cannot be loaded.
build_full_run(template_loads) ==
    /\ \A c \in RunCalls : run_pc[c] = "idle"
    /\ tasks = <<>>
    /\ run_ret["build_full_run"] = <<>>
    /\ IF template_loads
       THEN /\ tasks' = FullRunTasks
            /\ run_ret' = [run_ret EXCEPT !["build_full_run"] = Returned("dag, logger")]
       ELSE /\ tasks' = tasks
            /\ run_ret' = [run_ret EXCEPT !["build_full_run"] = Raised(TemplateMissing)]
    /\ entries' = <<>>
    /\ UNCHANGED <<run_pc, run_state, run_trace>>

\* The call c is in progress.
Running(c) == run_pc[c] \notin {"idle", "done"}

\* WorkflowDAG.run, its entry: results = [] and the first turn of
\* `for task in self.tasks`, which ends at once when there is no task. The
\* call c begins whether or not the other call is in progress. Beside the
\* locals of run the state of a call notes the length of the log when the
\* call began and whether another call was in progress at any time of it.
run(c) ==
    /\ run_pc[c] = "idle"
    /\ run_pc' = [run_pc EXCEPT ![c] = IF tasks = <<>> THEN "return" ELSE "loop"]
    /\ run_state' =
          [k \in RunCalls |->
              IF k = c
              THEN [idx |-> 1, results |-> <<>>, output |-> None,
                    base |-> Len(entries),
                    overlapped |-> \E other \in RunCalls \ {c} : Running(other)]
              ELSE IF Running(k) THEN [run_state[k] EXCEPT !.overlapped = TRUE]
              ELSE run_state[k]]
    /\ run_trace' = [run_trace EXCEPT ![c] = <<>>]
    /\ run_ret' = [run_ret EXCEPT ![c] = <<>>]
    /\ UNCHANGED <<tasks, entries>>

\* Variant of the loop body that logs the task before it calls it.
call_task_LogFirst(c, returns, output) ==
    /\ run_pc[c] = "loop"
    /\ LET name == tasks[run_state[c].idx] IN
       /\ entries' = Append(entries, log_message(name))
       /\ IF returns
          THEN /\ run_pc' = [run_pc EXCEPT ![c] = "append"]
               /\ run_state' = [run_state EXCEPT ![c].output = Some(output)]
               /\ run_trace' = [run_trace EXCEPT ![c] = Append(@, <<"returned", name>>)]
               /\ run_ret' = run_ret
          ELSE /\ run_pc' = [run_pc EXCEPT ![c] = "done"]
               /\ run_state' = run_state
               /\ run_trace' = [run_trace EXCEPT ![c] = Append(@, <<"raised", name>>)]
               /\ run_ret' = [run_ret EXCEPT ![c] = Raised(TaskError(name))]
    /\ UNCHANGED tasks

\* output = task.func(): the task returns a value, or it raises and the
\* exception leaves run.
call_task(c, returns, output) ==
    /\ run_pc[c] = "loop"
    /\ LET name == tasks[run_state[c].idx] IN
       IF returns
       THEN /\ run_pc' = [run_pc EXCEPT ![c] = "append"]
            /\ run_state' = [run_state EXCEPT ![c].output = Some(output)]
            /\ run_trace' = [run_trace EXCEPT ![c] = Append(@, <<"returned", name>>)]
            /\ run_ret' = run_ret
       ELSE /\ run_pc' = [run_pc EXCEPT ![c] = "done"]
            /\ run_state' = run_state
            /\ run_trace' = [run_trace EXCEPT ![c] = Append(@, <<"raised", name>>)]
            /\ run_ret' = [run_ret EXCEPT ![c] = Raised(TaskError(name))]
    /\ UNCHANGED <<tasks, entries>>

\* results.append((task.name, output)); self.logger.log(f"executed:...")
append_result(c) ==
    /\ run_pc[c] = "append"
    /\ LET name == tasks[run_state[c].idx] IN
       /\ run_state' = [run_state EXCEPT
                           ![c].results = Append(@, <<name, Val(run_state[c].output)>>),
                           ![c].output = None,
                           ![c].idx = @ + 1]
       /\ entries' = Append(entries, log_message(name))
    /\ run_pc' = [run_pc EXCEPT ![c] = "next"]
    /\ UNCHANGED <<tasks, run_trace, run_ret>>

\* The next turn of `for task in self.tasks`: the loop takes the next task
\* of the list as it is now, also one added since the task before it was
\* logged, or ends.
next_task(c) ==
    /\ run_pc[c] = "next"
    /\ run_pc' = [run_pc EXCEPT ![c] =
                     IF run_state[c].idx > Len(tasks) THEN "return" ELSE "loop"]
    /\ UNCHANGED <<tasks, entries, run_state, run_trace, run_ret>>

\* return results, after the loop
run_returns(c) ==
    /\ run_pc[c] = "return"
    /\ run_pc' = [run_pc EXCEPT ![c] = "done"]
    /\ run_ret' = [run_ret EXCEPT ![c] = Returned(run_state[c].results)]
    /\ UNCHANGED <<tasks, entries, run_state, run_trace>>

\* The steps of the task runner; the other subsystems stand still.
DAGOnly == UNCHANGED <<SOPVars, FitVars, QCVars, DeckVars, LIMSVars>>
AddTask == \E name \in TaskNames : add_task(name) /\ DAGOnly
BuildFullRun == \E template_loads \in BOOLEAN : build_full_run(template_loads) /\ DAGOnly
Run == \E c \in RunCalls : run(c) /\ DAGOnly
CallTask == \E c \in RunCalls, returns \in BOOLEAN, output \in TaskOutputs :
    call_task(c, returns, output) /\ DAGOnly
AppendResult == \E c \in RunCalls : append_result(c) /\ DAGOnly
NextTask == \E c \in RunCalls : next_task(c) /\ DAGOnly
RunReturns == \E c \in RunCalls : run_returns(c) /\ DAGOnly

DAGNext ==
    \/ AddTask
    \/ BuildFullRun
    \/ Run
    \/ CallTask
    \/ AppendResult
    \/ NextTask
    \/ RunReturns

\* One DAG, built task by task or by build_full_run, and the calls of run.
SpecDAG ==
    /\ DAGInit
    /\ [][DAGNext]_vars

-----------------------------------------------------------------------------
\* Vocabulary of the properties of the task runner.

\* The DAG is the one build_full_run returns.
FullRun == tasks = FullRunTasks

\* The call c has ended by returning its results, or by an exception of a
\* task.
RunReturned(c) == run_pc[c] = "done" /\ ~run_ret[c].out.raised
RunRaised(c) == run_pc[c] = "done" /\ run_ret[c].out.raised

\* names = [name for name, _ in results]
names(rs) == { rs[k][1] : k \in 1..Len(rs) }

\* C22: the run of the DAG of build_full_run yields results whose task names
\* include "prepare", "ingest", "analytics" and "qc", and leaves a logger
\* entry that starts with "executed".
C22_FullRunNames ==
    \A c \in RunCalls :
        FullRun /\ RunReturned(c) =>
            /\ {"prepare", "ingest", "analytics", "qc"} \subseteq names(run_ret[c].result)
            /\ \E k \in 1..Len(entries) : StartsWithExecuted(entries[k])

-----------------------------------------------------------------------------
\* The state of a call of run, while it is in progress and after it has
\* ended.

\* The call c has begun.
Began(c) == run_state[c] /= <<>>

\* The tasks that have completed in the call c: those before the current one.
Completed(c) == run_state[c].idx - 1

\* The entries the logger has gained since the call c began.
LoggedSince(c) == SubSeq(entries, run_state[c].base + 1, Len(entries))

\* No other call was in progress at any time of the call c: every other
\* call ended before c began or begins after c has ended.
Alone(c) == ~run_state[c].overlapped

\* The log holds one entry for each completed task of the call c, in order,
\* and no other.
LogHoldsCompleted(c) ==
    entries = [k \in 1..Completed(c) |-> log_message(tasks[k])]

\* The calls of the tasks were made in the order the tasks were added, and
\* only the last of them can have raised.
CalledInOrder(c) ==
    /\ Len(run_trace[c]) \in {Completed(c), Completed(c) + 1}
    /\ Len(run_trace[c]) <= Len(tasks)
    /\ \A k \in 1..Len(run_trace[c]) :
          /\ run_trace[c][k][2] = tasks[k]
          /\ k < Len(run_trace[c]) => run_trace[c][k][1] = "returned"
    /\ run_pc[c] \in {"loop", "next", "return"} => Len(run_trace[c]) = Completed(c)
    /\ run_pc[c] = "loop" => Completed(c) < Len(tasks)
    /\ run_pc[c] = "append" =>
          /\ Len(run_trace[c]) = Completed(c) + 1
          /\ run_trace[c][Len(run_trace[c])][1] = "returned"

\* The results hold one pair for each completed task, in order.
OneResultPerCompleted(c) ==
    /\ Len(run_state[c].results) = Completed(c)
    /\ \A k \in 1..Completed(c) : run_state[c].results[k][1] = tasks[k]

\* The log has gained one entry for each completed task, in order, and no
\* other, since the call began.
OneEntryPerCompleted(c) ==
    /\ Len(entries) = run_state[c].base + Completed(c)
    /\ LoggedSince(c) = [k \in 1..Completed(c) |-> log_message(tasks[k])]

\* A call that a task ended stopped at that task; a call that returned has
\* seen every task return and returns its results.
EndsAsStated(c) ==
    /\ RunRaised(c) =>
          /\ Len(run_trace[c]) = Completed(c) + 1
          /\ run_trace[c][Len(run_trace[c])] = <<"raised", tasks[Completed(c) + 1]>>
    /\ RunReturned(c) =>
          /\ Len(run_trace[c]) = Completed(c)
          /\ \A k \in 1..Len(run_trace[c]) : run_trace[c][k][1] = "returned"
          /\ run_ret[c].result = run_state[c].results

\* The loop ends only when every task of the list, as it is then, has
\* completed, and the call returns the results it has then.
ReturnsAfterLastTask(c) ==
    /\ run_pc[c] /= "return" /\ run_pc'[c] = "return" =>
          run_state'[c].idx - 1 = Len(tasks')
    /\ run_pc[c] = "return" /\ run_pc'[c] = "done" =>
          /\ ~run_ret'[c].out.raised
          /\ UNCHANGED <<tasks, entries, run_state, run_trace>>

\* The call c logs now: its task has just returned, the log gains the entry
\* of that task at its end and the task counts as completed.
Logs(c) ==
    /\ run_pc[c] = "append"
    /\ run_trace[c][Len(run_trace[c])] = <<"returned", tasks[run_state[c].idx]>>
    /\ entries' = Append(entries, log_message(tasks[run_state[c].idx]))
    /\ run_state'[c].idx = run_state[c].idx + 1

\* The logger gains an entry only when a call logs the task that has just
\* returned in it, a call counts a task as completed only when it logs it,
\* and a call that a task ended makes no further step.
LogsAfterReturn ==
    /\ entries' /= entries => \E c \in RunCalls : Logs(c)
    /\ \A c \in RunCalls :
          /\ Began(c) /\ Began(c)' /\ run_state'[c].idx /= run_state[c].idx
                => run_state'[c].idx = 1 \/ Logs(c)
          /\ RunRaised(c) /\ run_pc'[c] = "done" =>
                /\ run_trace'[c] = run_trace[c]
                /\ run_state'[c] = run_state[c]

\* The call c is in progress after this step, or ends in it.
Active(c) == Running(c)' \/ Running(c)

\* C23 (as stated): run calls the tasks in the order they were added and
\* logs "executed:<name>" only after that task has returned; when a task
\* raises the run stops there, no later task is called, and the log holds
\* exactly one entry for each task that completed before it, in order.
C23_RunAsStated ==
    [][ /\ LogsAfterReturn
        /\ \A c \in RunCalls :
              /\ ReturnsAfterLastTask(c)
              /\ Began(c)' =>
                    /\ CalledInOrder(c)'
                    /\ OneResultPerCompleted(c)'
                    /\ Active(c) => LogHoldsCompleted(c)'
                    /\ EndsAsStated(c)' ]_DAGVars

\* C23 (amended): each call of run calls the tasks in the order they were
\* added and logs "executed:<name>" only after that task has returned in it,
\* once for each task it completes; when a task raises the call stops
\* there and calls no later task. While a call that no other call overlaps
\* is in progress, and when it ends, the log has gained since the call
\* began exactly one entry for each task completed in it, in order, after
\* the entries it held before; a call that overlaps another finds the
\* entries of both in the log.
C23_RunInOrder ==
    [][ /\ LogsAfterReturn
        /\ \A c \in RunCalls :
              /\ ReturnsAfterLastTask(c)
              /\ Began(c)' =>
                    /\ CalledInOrder(c)'
                    /\ OneResultPerCompleted(c)'
                    /\ Active(c) /\ Alone(c)' => OneEntryPerCompleted(c)'
                    /\ EndsAsStated(c)' ]_DAGVars

\* A call that began after another call had ended and logged its task, and
\* that no call overlaps, has ended at the second of three tasks after the
\* first one completed in it: the log has gained the entry of the first
\* task and no other, after the entry it held before.
C23_Witness ==
    \E c \in RunCalls :
        /\ RunRaised(c)
        /\ Alone(c)
        /\ run_state[c].base = 1
        /\ Len(tasks) = 3
        /\ run_trace[c] = <<<<"returned", tasks[1]>>, <<"raised", tasks[2]>>>>
        /\ LoggedSince(c) = <<log_message(tasks[1])>>
        /\ Len(entries) = 2

-----------------------------------------------------------------------------
\* Mock liquid handler (src/connectors/liquid_handler.py).

\* Bound of the handler.
MaxCalls == 3       \* calls recorded in the audit log

\* The wells hold floats, and the handler adds, subtracts and compares as
\* floats. The number a float stands for is held exactly as its count of
\* units of 2^-56 microlitres, a natural number of four limbs.
FractionBits == 56

\* A volume a call names is a float or, as in the test of the handler
\* (src/tests/test_connectors.py l.16-17), an int: int(n) is the int n.
int(n) == [int |-> n]
is_int(volume_ul) == DOMAIN volume_ul = {"int"}

\* The float an int becomes when it is added to, taken from or compared
\* with a float (exact for the ints of the calls, which lie below 2^53); a
\* float is left as it is.
as_float(volume_ul) ==
    IF is_int(volume_ul) THEN float(volume_ul.int) ELSE volume_ul

\* 2.0 ** 53, above which not every whole number is a float, and
\* float("0.1")
large == rounded(FALSE, Limbs(1), Precision, FALSE)
tenth == decimal(10)

\* The wells and the volumes the calls name: the ints 100 and 25 of the test
\* and the floats 0.0, 1.0, 0.1 and 2.0 ** 53.
Wells == {"A1", "B1"}
Volumes == {int(100), int(25), FloatZero, float(1), tenth, large}

\* The number a float of the deck stands for, in units of 2^-56.
exact(f) ==
    IF f.exp + FractionBits >= 0 THEN Shl(f.man, f.exp + FractionBits)
    ELSE Shr(f.man, -(f.exp + FractionBits))

\* The float is a whole number; the number is at most 2^53.
IsWhole(f) ==
    \/ IsZero(f)
    \/ f.exp >= 0
    \/ f.exp > -Precision /\ Shl(Shr(f.man, -f.exp), -f.exp) = f.man
WithinExact(n) == Geq(Shl(Limbs(1), Precision + FractionBits), n)

\* The text of {volume_ul} in the messages: the digits of an int; for a
\* float that is a whole number below 2^29 its digits and ".0"; the texts of
\* 0.1 and of 2.0 ** 53. Other floats are not among the volumes of the calls.
repr(volume_ul) ==
    CASE is_int(volume_ul) -> ToString(volume_ul.int)
      [] volume_ul = large -> "9007199254740992.0"
      [] volume_ul = tenth -> "0.1"
      [] IsZero(volume_ul) -> "0.0"
      [] /\ ~is_int(volume_ul) /\ ~IsZero(volume_ul) /\ ~volume_ul.neg
         /\ IsWhole(volume_ul) /\ volume_ul.exp <= -(Precision - LimbBits) ->
            ToString(Shr(volume_ul.man, -volume_ul.exp)[1]) \o ".0"

\* d[key] = value
Put(d, key, value) ==
    [k \in DOMAIN d \cup {key} |-> IF k = key THEN value ELSE d[k]]

\* The volume on the deck: the sum of the numbers its wells hold, exactly.
RECURSIVE total(_)
total(d) ==
    IF DOMAIN d = {} THEN Zero4
    ELSE LET w == CHOOSE k \in DOMAIN d : TRUE IN
         Add(exact(d[w]), total([k \in DOMAIN d \ {w} |-> d[k]]))

\* f"load:{well}:{volume_ul}" and
\* f"transfer:{transfer.source}->{transfer.destination}:{transfer.volume_ul}"
load_message(well, volume_ul) == "load:" \o well \o ":" \o repr(volume_ul)
transfer_message(t) ==
    "transfer:" \o t.source \o "->" \o t.destination \o ":" \o repr(t.volume_ul)

\* Transfer(source, destination, volume_ul)
Transfer(source, destination, volume_ul) ==
    [source |-> source, destination |-> destination, volume_ul |-> volume_ul]

InsufficientVolume == Raise("ValueError", "Insufficient volume", <<>>)

\* The record of a handler call: its arguments, its outcome, and the deck,
\* the log and the loaded sum it found.
DeckCall(op, args, out) ==
    [op |-> op, args |-> args, out |-> out,
     before |-> [deck_state |-> deck_state, audit_log |-> audit_log,
                 loaded |-> loaded]]

\* loaded is the sum of the numbers loaded so far, exactly.
DeckInit ==
    /\ deck_state = <<>>
    /\ audit_log = <<>>
    /\ loaded = Zero4
    /\ deck_last = <<>>
    /\ SOPUnused /\ FitUnused /\ QCUnused /\ DAGUnused /\ LIMSUnused

\* MockLiquidHandler.load_well: the float sum of what the well holds and
\* volume_ul.
load_well(well, volume_ul) ==
    /\ deck_state' = Put(deck_state, well,
                         float_add(Get(deck_state, well, FloatZero),
                                   as_float(volume_ul)))
    /\ audit_log' = Append(audit_log, load_message(well, volume_ul))
    /\ loaded' = Add(loaded, exact(as_float(volume_ul)))
    /\ deck_last' = DeckCall("load_well", [well |-> well, volume_ul |-> volume_ul], Return)

\* Variant of transfer that reads the destination before it debits the source.
transfer_StaleDestination(t) ==
    LET available == Get(deck_state, t.source, FloatZero) IN
    IF ~float_geq(available, as_float(t.volume_ul))
    THEN /\ deck_last' = DeckCall("transfer", t, InsufficientVolume)
         /\ UNCHANGED <<deck_state, audit_log, loaded>>
    ELSE /\ deck_state' = Put(Put(deck_state, t.source,
                                  float_sub(available, as_float(t.volume_ul))),
                              t.destination,
                              float_add(Get(deck_state, t.destination, FloatZero),
                                        as_float(t.volume_ul)))
         /\ audit_log' = Append(audit_log, transfer_message(t))
         /\ deck_last' = DeckCall("transfer", t, Return)
         /\ UNCHANGED loaded

\* MockLiquidHandler.transfer: the comparison, the difference and the sum
\* are those of floats, and the destination is read after the source is
\* written.
transfer(t) ==
    LET available == Get(deck_state, t.source, FloatZero) IN
    IF ~float_geq(available, as_float(t.volume_ul))
    THEN /\ deck_last' = DeckCall("transfer", t, InsufficientVolume)
         /\ UNCHANGED <<deck_state, audit_log, loaded>>
    ELSE LET debited == Put(deck_state, t.source,
                            float_sub(available, as_float(t.volume_ul))) IN
         /\ deck_state' = Put(debited, t.destination,
                              float_add(Get(debited, t.destination, FloatZero),
                                        as_float(t.volume_ul)))
         /\ audit_log' = Append(audit_log, transfer_message(t))
         /\ deck_last' = DeckCall("transfer", t, Return)
         /\ UNCHANGED loaded

\* The calls of the handler; the other subsystems stand still.
DeckOnly == UNCHANGED <<SOPVars, FitVars, QCVars, DAGVars, LIMSVars>>
LoadWell ==
    /\ Len(audit_log) < MaxCalls
    /\ \E well \in Wells, volume_ul \in Volumes : load_well(well, volume_ul) /\ DeckOnly
DoTransfer ==
    /\ Len(audit_log) < MaxCalls
    /\ \E source \in Wells, destination \in Wells, volume_ul \in Volumes :
          transfer(Transfer(source, destination, volume_ul)) /\ DeckOnly

DeckNext ==
    \/ LoadWell
    \/ DoTransfer

\* One handler and the calls made on it.
SpecDeck ==
    /\ DeckInit
    /\ [][DeckNext]_vars

-----------------------------------------------------------------------------
\* Vocabulary of the properties of the handler.

\* The float a well holds (a well the deck does not list holds 0.0).
Held(d, well) == Get(d, well, FloatZero)

\* A call has been made; the last call was a load, a transfer, one that
\* succeeded, one that failed. Every step of the handler is a call, so what
\* holds of the last call in every state holds of every call.
Called == deck_last /= <<>>
WellLoaded == Called /\ deck_last.op = "load_well"
Transferred == Called /\ deck_last.op = "transfer"
TransferSucceeded == Transferred /\ ~deck_last.out.raised
TransferFailed == Transferred /\ deck_last.out.raised

\* The deck, the log and the loaded sum the last call found, and the float
\* of the volume it named.
Found == deck_last.before
Volume == as_float(deck_last.args.volume_ul)

\* No well holds a negative volume.
NoneNegative == \A w \in DOMAIN deck_state : ~Negative(deck_state[w])

\* A transfer fails when it asks for more than the source holds, and only
\* then, with the error "Insufficient volume", and leaves the deck and the
\* audit log unchanged.
FailsWhenShort ==
    Transferred =>
        /\ TransferFailed <=>
              ~float_geq(Held(Found.deck_state, deck_last.args.source), Volume)
        /\ TransferFailed =>
              /\ deck_last.out = InsufficientVolume
              /\ deck_state = Found.deck_state
              /\ audit_log = Found.audit_log

\* A successful transfer of v takes exactly v from the source and adds
\* exactly v to the destination (a transfer from a well to itself leaves it
\* unchanged), and leaves every other well alone.
MovesExactly ==
    TransferSucceeded =>
        LET t == deck_last.args
            v == exact(Volume)
        IN  /\ \A w \in Wells \ {t.source, t.destination} :
                  Held(deck_state, w) = Held(Found.deck_state, w)
            /\ IF t.source = t.destination
               THEN Held(deck_state, t.source) = Held(Found.deck_state, t.source)
               ELSE /\ Add(exact(Held(deck_state, t.source)), v)
                          = exact(Held(Found.deck_state, t.source))
                    /\ exact(Held(deck_state, t.destination))
                          = Add(exact(Held(Found.deck_state, t.destination)), v)
            /\ loaded = Found.loaded

\* C24 (as stated): with non-negative volumes the volume on the deck always
\* equals the sum of the loaded volumes and no well holds a negative volume;
\* a successful transfer of v takes exactly v from the source and adds
\* exactly v to the destination, leaving every other well alone (a transfer
\* from a well to itself leaves it unchanged); a transfer of more than the
\* source holds fails with the error "Insufficient volume" and leaves the
\* deck and the audit log unchanged, and no other transfer fails.
C24_VolumeConserved ==
    /\ total(deck_state) = loaded
    /\ NoneNegative
    /\ FailsWhenShort
    /\ MovesExactly

\* A successful call writes the floats nearest to the sum and to the
\* difference: load_well the sum of the well and the volume; transfer the
\* difference of the source and the volume, and then the sum of the
\* destination, as it then is, and the volume.
WritesNearest ==
    /\ WellLoaded =>
          LET well == deck_last.args.well IN
          /\ Held(deck_state, well) = float_add(Held(Found.deck_state, well), Volume)
          /\ \A w \in Wells \ {well} :
                Held(deck_state, w) = Held(Found.deck_state, w)
          /\ loaded = Add(Found.loaded, exact(Volume))
    /\ TransferSucceeded =>
          LET t == deck_last.args
              left == float_sub(Held(Found.deck_state, t.source), Volume)
          IN  /\ \A w \in Wells \ {t.source, t.destination} :
                    Held(deck_state, w) = Held(Found.deck_state, w)
              /\ IF t.source = t.destination
                 THEN Held(deck_state, t.source) = float_add(left, Volume)
                 ELSE /\ Held(deck_state, t.source) = left
                      /\ Held(deck_state, t.destination)
                            = float_add(Held(Found.deck_state, t.destination),
                                        Volume)
              /\ loaded = Found.loaded

\* The deck holds whole numbers that add up to the loaded sum, which is at
\* most 2^53: floats add and subtract such numbers without rounding.
WholeDeck(d, volume) ==
    /\ WithinExact(volume)
    /\ \A w \in DOMAIN d : IsWhole(d[w])
    /\ total(d) = volume

\* The last call found such a deck and named a whole number, with which the
\* loaded sum is at most 2^53.
WholeCall ==
    /\ Called
    /\ IsWhole(Volume)
    /\ WellLoaded => WithinExact(Add(Found.loaded, exact(Volume)))
    /\ WholeDeck(Found.deck_state, Found.loaded)

\* C24 (amended): with non-negative volumes no well ever holds a negative
\* volume, and a transfer of more than the source holds fails with the
\* error "Insufficient volume" and leaves the deck and the audit log
\* unchanged, and no other transfer fails. The sums and differences are
\* those of floats. With whole numbers of microlitres whose loaded sum is at
\* most 2^53 they are exact: a call on a deck of whole numbers that add up
\* to the loaded sum leaves such a deck, so after any sequence of such calls
\* the volume on the deck equals the sum of the loaded volumes, and a
\* successful transfer of v takes exactly v from the source and adds exactly
\* v to the destination, leaving every other well alone (a transfer from a
\* well to itself leaves it unchanged). With other volumes a sum is rounded
\* to the nearest float, and the deck can hold more or less than was loaded.
C24_WholeVolumeConserved ==
    /\ NoneNegative
    /\ FailsWhenShort
    /\ WritesNearest
    /\ WholeCall =>
          /\ WholeDeck(deck_state, loaded)
          /\ MovesExactly

\* Both wells hold a whole volume, and one of them has just been
\* transferred a whole positive volume from itself; the deck holds what was
\* loaded.
C24_Witness ==
    /\ TransferSucceeded
    /\ deck_last.args.source = deck_last.args.destination
    /\ Positive(Volume)
    /\ IsWhole(Volume)
    /\ \A w \in Wells : Positive(Held(deck_state, w))
    /\ WholeDeck(Found.deck_state, Found.loaded)
    /\ WholeDeck(deck_state, loaded)

-----------------------------------------------------------------------------
\* LIMS adapter (src/lims/adapter.py, src/lims/config.py).

\* Bound of the adapter.
MaxTrail == 3       \* entries of the audit trail

\* A text that the code splits at "-" is held as its pieces: the user id
\* "alice" is <<"alice">>, "a-b" is <<"a", "b">>, and the token
\* "token-alice-1.0" is <<"token", "alice", "1.0">>. A text starts with
\* "token-" when it has more than one piece and the first one is "token".

\* The arguments of the calls. "alice" registers, with the first password;
\* "bob" never does.
RegisteredIds == { <<"alice">> }
UserIds == RegisteredIds \cup { <<"bob">> }
Passwords == {"p@ss", "secure"}
RegisteredPasswords == {"p@ss"}
Roles == {"technician", "guest"}
Passcodes == {None, Some("123456")}
RecordIds == {"S-0001"}
Reasons == {None, Some("Verified")}

\* The readings of the clock, in seconds, and the threads that call the
\* adapter.
Times == {1, 2}
Threads == {"t1", "t2"}

\* f"{datetime.utcnow().timestamp()}" for a clock at a whole second
timestamp_text(now) == ToString(now) \o ".0"

\* token = f"token-{user_id}-{timestamp}"
token_text(user_id, now) == <<"token">> \o user_id \o <<timestamp_text(now)>>

\* The tokens the callers present: one that authenticate returns for
\* "alice", and "token" and "bearer-alice-1", which do not start with
\* "token-".
Tokens ==
    { token_text(<<"alice">>, 1), <<"token">>, <<"bearer", "alice", "1">> }

\* LIMSConfig.allowed_roles, the default
allowed_roles == {"technician", "qa", "admin"}

\* The settings of a context: LIMSConfig.enforce_multi_factor, on or off,
\* and CFRPart11Policy.require_reason_for_changes at its default.
Settings == [enforce_multi_factor : BOOLEAN, require_reason_for_changes : {TRUE}]

\* token.startswith("token-") and token.split("-")[1]
starts_with_token(token) == Len(token) >= 2 /\ token[1] = "token"
user_of(token) == <<token[2]>>

\* f"{n:04d}"
four_digits(n) ==
    IF n < 10 THEN "000" \o ToString(n)
    ELSE IF n < 100 THEN "00" \o ToString(n)
    ELSE IF n < 1000 THEN "0" \o ToString(n)
    ELSE ToString(n)

\* The exceptions of the adapter.
InvalidCredentials == Raise("AuthenticationError", "Invalid credentials", <<>>)
MissingPasscode == Raise("AuthenticationError", "Missing one-time passcode", <<>>)
InvalidToken == Raise("AuthenticationError", "Invalid token format", <<>>)
RoleNotPermitted(role) ==
    Raise("AuthorizationError", "Role " \o role \o " is not permitted", <<>>)

\* AuditTrailEntry built by _record_action. The signature is a token, never
\* the empty text, so `signature or f"sig-{user_id}"` is the signature.
AuditTrailEntry(user_id, action, timestamp, signature, reason) ==
    [user_id |-> user_id,
     action |-> action,
     timestamp |-> timestamp,
     signature |-> signature,
     reason |-> IF config.require_reason_for_changes THEN reason ELSE None]

\* datetime.utcnow(): the clock does not run backwards, so a reading is not
\* before the reading before it, whichever thread made that one.
Readings == { t \in Times : t >= utcnow }

\* The record of an adapter call: its arguments, its outcome and the value
\* it returned.
LIMSCall(op, args, out, result) ==
    [op |-> op, args |-> args, out |-> out, result |-> result]

\* A call that has passed its checks and goes on to _record_action: what it
\* will record and return, the length of the trail it found, and the entry
\* once _record_action has built it.
InProgress(op, args, user_id, action, reason, signature, result) ==
    [op |-> op, args |-> args, user_id |-> user_id, action |-> action,
     reason |-> reason, signature |-> signature, result |-> result,
     read |-> Len(audit_trail), entry |-> None]

\* The threads with a call in progress.
InFlight == { t \in Threads : calls[t] /= None }

LIMSInit ==
    /\ users = <<>>
    /\ config \in Settings
    /\ audit_trail = <<>>
    /\ utcnow = 1
    /\ calls = [t \in Threads |-> None]
    /\ sample_ids = <<>>
    /\ lims_last = <<>>
    /\ SOPUnused /\ FitUnused /\ QCUnused /\ DAGUnused /\ DeckUnused

\* LIMSAdapter.register_user
register_user(user_id, role, password) ==
    /\ IF role \notin allowed_roles
       THEN /\ lims_last' = LIMSCall("register_user", <<user_id, role>>,
                                     RoleNotPermitted(role), None)
            /\ users' = users
       ELSE /\ users' = Put(users, user_id, [role |-> role, password |-> password])
            /\ lims_last' = LIMSCall("register_user", <<user_id, role>>, Return, None)
    /\ UNCHANGED <<config, audit_trail, utcnow, calls, sample_ids>>

\* LIMSAdapter.authenticate up to the call of _record_action: the checks and
\* the token, for which the clock is read (now).
authenticate(thread, user_id, password, otp, now) ==
    LET args == [user_id |-> user_id, password |-> password, otp |-> otp] IN
    IF user_id \notin DOMAIN users \/ users[user_id].password /= password
    THEN /\ lims_last' = LIMSCall("authenticate", args, InvalidCredentials, None)
         /\ UNCHANGED <<users, config, audit_trail, utcnow, calls, sample_ids>>
    ELSE IF config.enforce_multi_factor /\ otp = None
    THEN /\ lims_last' = LIMSCall("authenticate", args, MissingPasscode, None)
         /\ UNCHANGED <<users, config, audit_trail, utcnow, calls, sample_ids>>
    ELSE LET token == token_text(user_id, now) IN
         /\ utcnow' = now
         /\ calls' = [calls EXCEPT ![thread] =
                         Some(InProgress("authenticate", args, user_id, "login",
                                         None, token, Some(token)))]
         /\ UNCHANGED <<users, config, audit_trail, sample_ids, lims_last>>

\* Variant of create_sample that numbers the sample by the registered users.
create_sample_ByUserCount(thread, token) ==
    LET args == [token |-> token] IN
    IF ~starts_with_token(token)
    THEN /\ lims_last' = LIMSCall("create_sample", args, InvalidToken, None)
         /\ UNCHANGED <<users, config, audit_trail, utcnow, calls, sample_ids>>
    ELSE LET sample_id == "S-" \o four_digits(Cardinality(DOMAIN users)) IN
         /\ calls' = [calls EXCEPT ![thread] =
                         Some(InProgress("create_sample", args, user_of(token),
                                         "create_sample:" \o sample_id, None, token,
                                         Some(sample_id)))]
         /\ UNCHANGED <<users, config, audit_trail, utcnow, sample_ids, lims_last>>

\* LIMSAdapter.create_sample up to the call of _record_action:
\* _assert_token, the user of the token, and the id from the length the
\* trail has now. Nothing locks the trail between this reading and the
\* append of record.
create_sample(thread, token) ==
    LET args == [token |-> token] IN
    IF ~starts_with_token(token)
    THEN /\ lims_last' = LIMSCall("create_sample", args, InvalidToken, None)
         /\ UNCHANGED <<users, config, audit_trail, utcnow, calls, sample_ids>>
    ELSE LET sample_id == "S-" \o four_digits(Len(audit_trail)) IN
         /\ calls' = [calls EXCEPT ![thread] =
                         Some(InProgress("create_sample", args, user_of(token),
                                         "create_sample:" \o sample_id, None, token,
                                         Some(sample_id)))]
         /\ UNCHANGED <<users, config, audit_trail, utcnow, sample_ids, lims_last>>

\* LIMSAdapter.approve_record up to the call of _record_action
approve_record(thread, token, record_id, reason) ==
    LET args == [token |-> token, record_id |-> record_id, reason |-> reason] IN
    IF ~starts_with_token(token)
    THEN /\ lims_last' = LIMSCall("approve_record", args, InvalidToken, None)
         /\ UNCHANGED <<users, config, audit_trail, utcnow, calls, sample_ids>>
    ELSE /\ calls' = [calls EXCEPT ![thread] =
                         Some(InProgress("approve_record", args, user_of(token),
                                         "approve:" \o record_id, reason, token, None))]
         /\ UNCHANGED <<users, config, audit_trail, utcnow, sample_ids, lims_last>>

\* _record_action up to the call of LIMSContext.record: the entry, for whose
\* timestamp the clock is read (now). Nothing locks the trail between this
\* reading and the append of record.
_record_action(thread, now) ==
    LET call == Val(calls[thread]) IN
    /\ call.entry = None
    /\ utcnow' = now
    /\ calls' = [calls EXCEPT ![thread] =
                    Some([call EXCEPT !.entry =
                             Some(AuditTrailEntry(call.user_id, call.action, now,
                                                  call.signature, call.reason))])]
    /\ UNCHANGED <<users, config, audit_trail, sample_ids, lims_last>>

\* LIMSContext.record, and the return of the call that made the entry.
record(thread) ==
    LET call == Val(calls[thread]) IN
    /\ call.entry /= None
    /\ audit_trail' = Append(audit_trail, Val(call.entry))
    /\ sample_ids' =
          IF call.op = "create_sample"
          THEN Append(sample_ids, [id |-> Val(call.result), read |-> call.read,
                                   recorded |-> Len(audit_trail) + 1])
          ELSE sample_ids
    /\ calls' = [calls EXCEPT ![thread] = None]
    /\ lims_last' = LIMSCall(call.op, call.args, Return, call.result)
    /\ UNCHANGED <<users, config, utcnow>>

\* The calls of the adapter, made by two threads; the other subsystems stand
\* still. A call begins while the trail, with the entries of the calls in
\* progress, has room.
LIMSOnly == UNCHANGED <<SOPVars, FitVars, QCVars, DAGVars, DeckVars>>
HasRoom == Len(audit_trail) + Cardinality(InFlight) < MaxTrail
RegisterUser ==
    /\ HasRoom
    /\ \E user_id \in RegisteredIds, role \in Roles, password \in RegisteredPasswords :
          register_user(user_id, role, password) /\ LIMSOnly
Authenticate ==
    /\ HasRoom
    /\ \E thread \in Threads \ InFlight, user_id \in UserIds, password \in Passwords,
          otp \in Passcodes, now \in Readings :
          authenticate(thread, user_id, password, otp, now) /\ LIMSOnly
CreateSample ==
    /\ HasRoom
    /\ \E thread \in Threads \ InFlight, token \in Tokens :
          create_sample(thread, token) /\ LIMSOnly
ApproveRecord ==
    /\ HasRoom
    /\ \E thread \in Threads \ InFlight, token \in Tokens, record_id \in RecordIds,
          reason \in Reasons :
          approve_record(thread, token, record_id, reason) /\ LIMSOnly
RecordAction ==
    \E thread \in InFlight, now \in Readings : _record_action(thread, now) /\ LIMSOnly
Record ==
    \E thread \in InFlight : record(thread) /\ LIMSOnly

LIMSNext ==
    \/ RegisterUser
    \/ Authenticate
    \/ CreateSample
    \/ ApproveRecord
    \/ RecordAction
    \/ Record

\* One adapter over one context and the calls two threads make on it.
SpecLIMS ==
    /\ LIMSInit
    /\ [][LIMSNext]_vars

-----------------------------------------------------------------------------
\* Vocabulary of the properties of the adapter.

\* This step ends a call of this operation.
LIMSStep(op) ==
    /\ lims_last' /= lims_last \/ audit_trail' /= audit_trail
    /\ lims_last'.op = op

\* The call of this step fails, with an authentication error.
CallFails == lims_last'.out.raised
AuthenticationFails == CallFails /\ lims_last'.out.type = "AuthenticationError"

\* The credentials of the call of this step are those of a registered user.
GoodCredentials ==
    /\ lims_last'.args.user_id \in DOMAIN users
    /\ users[lims_last'.args.user_id].password = lims_last'.args.password

\* The trail gains exactly one entry, after the entries it had.
AppendsOneEntry ==
    /\ Len(audit_trail') = Len(audit_trail) + 1
    /\ SubSeq(audit_trail', 1, Len(audit_trail)) = audit_trail

\* The trail keeps its entries, in their order.
KeepsEntries ==
    /\ Len(audit_trail') >= Len(audit_trail)
    /\ SubSeq(audit_trail', 1, Len(audit_trail)) = audit_trail

\* Of two create_sample calls that have returned, the first had recorded its
\* entry when the second read the length of the trail: the calls followed
\* one another.
Successive(first, second) == first.recorded <= second.read

\* C25: with multi-factor enforcement on, authenticate without a passcode
\* fails with an authentication error; a failed authenticate (wrong
\* credentials or missing passcode) and a create_sample or approve_record
\* with a token that does not start with "token-" fail and leave the trail
\* unchanged; every successful authenticate, create_sample and
\* approve_record appends exactly one entry; no step removes or reorders
\* entries; and create_sample calls that follow one another return
\* distinct sample ids.
C25_AuditTrail ==
    [][ /\ KeepsEntries
        /\ audit_trail' /= audit_trail =>
              /\ ~CallFails
              /\ lims_last'.op \in {"authenticate", "create_sample", "approve_record"}
        /\ LIMSStep("authenticate") =>
              /\ config.enforce_multi_factor /\ lims_last'.args.otp = None
                    => AuthenticationFails
              /\ CallFails <=>
                    \/ ~GoodCredentials
                    \/ config.enforce_multi_factor /\ lims_last'.args.otp = None
              /\ CallFails => AuthenticationFails /\ audit_trail' = audit_trail
              /\ ~CallFails => AppendsOneEntry
        /\ LIMSStep("create_sample") \/ LIMSStep("approve_record") =>
              /\ CallFails <=> ~starts_with_token(lims_last'.args.token)
              /\ CallFails => AuthenticationFails /\ audit_trail' = audit_trail
              /\ ~CallFails => AppendsOneEntry
        /\ LIMSStep("create_sample") /\ ~CallFails =>
              /\ Len(sample_ids') = Len(sample_ids) + 1
              /\ sample_ids'[Len(sample_ids')].id = Val(lims_last'.result)
        /\ \A i, j \in 1..Len(sample_ids') :
              Successive(sample_ids'[i], sample_ids'[j])
                  => sample_ids'[i].id /= sample_ids'[j].id ]_LIMSVars

\* With multi-factor enforcement on, a user has logged in with a passcode
\* and create_sample has returned twice, one call after the other, with the
\* token of that login; the clock moved between the two readings of the
\* login.
C25_Witness ==
    /\ config.enforce_multi_factor
    /\ Len(audit_trail) = 3
    /\ audit_trail[1].action = "login"
    /\ audit_trail[1].signature = token_text(<<"alice">>, 1)
    /\ audit_trail[1].timestamp = 2
    /\ Len(sample_ids) = 2
    /\ Successive(sample_ids[1], sample_ids[2])
    /\ lims_last.op = "create_sample"
    /\ ~lims_last.out.raised
    /\ lims_last.args.token = audit_trail[1].signature
    /\ audit_trail[2].signature = audit_trail[1].signature

====
